---- MODULE Spec2Model ----
(***************************************************************************)
(* Model of the batch extractor (src/consultorsecihtyextractor.py):        *)
(*   - estimar_tokens_espanol and crear_chunks_inteligentes (the token     *)
(*     estimate and the chunk builder), run one loop iteration at a time   *)
(*     under SpecChunks;                                                   *)
(*   - ProcesadorDocumentos.procesar_documentos / procesar_chunk and the   *)
(*     on-disk cache cache_v31, over several runs (processes), under Spec  *)
(*     (a one-PDF corpus, several runs and a cache clean), and under       *)
(*     SpecLote (one run over a corpus large enough for several chunks).   *)
(*   - _parsear_respuesta_json (SpecParser) and consolidar_resultados      *)
(*     (SpecConsolidar), one call each on bounded inputs;                 *)
(*   - AnalizadorConsulta.analizar of src/consultorsecihtyanalisis.py      *)
(*     (SpecAnalizar), one call on a bounded query.                       *)
(*                                                                         *)
(* A text is represented by its number of whitespace-separated words       *)
(* (len(texto.split())), the only attribute of a text the chunk builder    *)
(* reads.  Python sequences are 0-indexed, TLA+ sequences 1-indexed; the   *)
(* batch index chunk_id keeps the source's 0-based value.                  *)
(***************************************************************************)
EXTENDS Integers, Sequences, FiniteSets, TLC

\* ------------------------------------------------------------------ bounds
MaxTextos == 3
MaxPalabras == 8
MaxBudget == 10
MaxPdfs == 1
MaxPdfsLote == 7
MaxCorridas == 2
MaxLimpiezas == 1
NumSemillas == 2
MaxRespuesta == 6
MaxLotesCons == 2
MaxEntradas == 3
MaxConsulta == 5

\* ------------------------------------------------------- program constants
\* TOKENS_POR_CHUNK, the default of max_tokens
TOKENS_POR_CHUNK == 26000
\* texto[:5000], the per-document cap of procesar_documentos
LimiteCaracteres == 5000

\* time.sleep(10) after a rate-limit response
EsperaRateLimit == 10

\* consultar_deepseek calls itself after a rate-limit response; the
\* interpreter allows a bounded number of nested activations (about a
\* thousand by default) and raises RecursionError at the next one.
LimiteRecursion == 3

\* calls of consultar_deepseek in one batch run
MaxLotesApi == 2

\* PDFs in the directory the query tool and the extractor read (SpecCorpus)
MaxPdfsCorpus == 2

\* words of the query given to procesar_consulta (SpecCorpus)
MaxPregunta == 2

\* project entries in the batch results consolidated twice
\* (SpecConsolidarDos)
MaxEntradasDos == 2

VARIABLES
  \* ---- crear_chunks_inteligentes, one call (SpecChunks)
  textos,          \* the argument textos
  max_tokens,      \* the argument max_tokens
  pos,             \* number of texts the for loop has consumed
  chunks,          \* local chunks
  chunk_actual,    \* local chunk_actual
  tokens_actual,   \* local tokens_actual
  pc,              \* "bucle" | "fin"
  \* ---- the extractor over several runs (Spec)
  corpus,             \* the PDFs of the input directory, in glob order
  comando,            \* sys.argv[1]: the query type asked for
  max_docs,           \* the N of --probar N (0: no --probar, max_docs None)
  cache,              \* the files of cache_v31: cache key -> file content
  fase,               \* "inactivo" | "procesando": is a process running
  semilla,            \* the string-hash seed of the running process
  consulta_tipo,      \* self.consulta_tipo
  documentos_nombres, \* local documentos_nombres of procesar_documentos
  chunks_docs,        \* local chunks_docs
  i_chunk,            \* the loop index i of Paso 3
  resultados_chunks,  \* self.resultados_chunks
  llamadas,           \* requests the running process has sent to the LLM
  corridas,           \* processes started so far
  limpiezas,          \* --limpiar commands so far
  ultima,             \* history: the last procesar_chunk call
  historia,           \* history: per cache key, what its calls did
  \* ---- _parsear_respuesta_json, one call (SpecParser)
  respuesta_api,      \* the argument respuesta: the reply, as symbols
  parseado,           \* what the call returned ("pendiente" before it)
  \* ---- consolidar_resultados, one call (SpecConsolidar)
  consolidado,        \* what the call returned ("pendiente" before it)
  \* ---- AnalizadorConsulta.analizar, one call (SpecAnalizar)
  consulta_texto,     \* the argument consulta_texto, as words
  analisis,           \* what the call returned ("pendiente" before it)
  \* ---- consultar_deepseek, the calls of one batch run (SpecGateway)
  prompt,             \* the argument prompt
  system_message,     \* the argument system_message ("": None)
  profundidad,        \* nested activations of consultar_deepseek
  solicitudes,        \* history: the message lists posted by this call
  dormido,            \* history: seconds this call has slept
  respuestas,         \* history: what the endpoint answered to this call
  retorno,            \* the value the outermost activation returned
  pc_api,             \* "inactivo" | "enviar" | "retornado" | "excepcion"
  lotes_pendientes,   \* batches of the run that still need their call
  \* ---- ConsultorSecihtiV32.procesar_consulta, one call (SpecCorpus)
  max_documentos,     \* the argument max_documentos (0: None)
  enviados,           \* history: the prompts the call sent to the LLM
  resultado_consulta, \* what the call returned ("pendiente" before it)
  \* ---- consolidar_resultados, two calls in one process (SpecConsolidarDos)
  orden_set,          \* the order in which the process iterates over a set
  consolidado_2       \* what the second call returned

varsChunks == <<textos, max_tokens, pos, chunks, chunk_actual, tokens_actual, pc>>

varsRun == <<corpus, comando, max_docs, cache, fase, semilla, consulta_tipo, documentos_nombres,
             chunks_docs, i_chunk, resultados_chunks, llamadas, corridas,
             limpiezas, ultima, historia>>

varsPuras == <<respuesta_api, parseado, consolidado, consulta_texto, analisis>>

varsApi == <<prompt, system_message, profundidad, solicitudes, dormido,
             respuestas, retorno, pc_api, lotes_pendientes>>

varsConsulta == <<max_documentos, enviados, resultado_consulta>>

varsDos == <<orden_set, consolidado_2>>

vars == <<varsChunks, varsRun, varsPuras, varsApi, varsConsulta, varsDos>>

\* no call of the parser, the consolidator or the classifier is modelled
Pendiente == [estado |-> "pendiente"]

\* no call of consultar_deepseek is modelled
SinRetorno == "sin_retorno"

ApiIdle ==
  /\ prompt = "" /\ system_message = ""
  /\ profundidad = 0
  /\ solicitudes = <<>> /\ dormido = 0 /\ respuestas = <<>>
  /\ retorno = SinRetorno
  /\ pc_api = "inactivo"
  /\ lotes_pendientes = 0

\* no second call of consolidar_resultados is modelled
DosIdle == orden_set = <<>> /\ consolidado_2 = Pendiente

\* no call of procesar_consulta is modelled
ConsultaIdle ==
  /\ max_documentos = 0
  /\ enviados = <<>>
  /\ resultado_consulta = Pendiente

PurasIdle ==
  /\ respuesta_api = <<>>
  /\ parseado = Pendiente
  /\ consolidado = Pendiente
  /\ consulta_texto = <<>>
  /\ analisis = Pendiente
  /\ ApiIdle
  /\ ConsultaIdle
  /\ DosIdle

\* ------------------------------------------------------ token estimation
\* int(palabras * 1.3): the product is truncated towards zero.  13*w/10 in
\* exact arithmetic gives the same integer as the float product for every
\* word count in range (1.3 is rounded up by less than one ulp).
estimar_tokens_espanol(texto) == (texto * 13) \div 10

\* ------------------------------------------------------------ chunk builder
\* tokens_texto > max_tokens * 0.8
MuyGrande(tokens_texto, budget) == 10 * tokens_texto > 8 * budget

\* tokens_actual + tokens_texto > max_tokens * 0.75
ChunkLlenoAl80(tokens_act, tokens_texto, budget) ==
  10 * (tokens_act + tokens_texto) > 8 * budget
ChunkLleno(tokens_act, tokens_texto, budget) ==
  100 * (tokens_act + tokens_texto) > 75 * budget

\* The state of the loop: the three locals.
EstadoInicial == [chunks |-> <<>>, chunk_actual |-> <<>>, tokens_actual |-> 0]

\* Variant of the loop body whose Caso 1 discards chunk_actual instead of
\* appending it to chunks before the oversized text.
IteracionSinFlush(st, texto, budget) ==
  LET tokens_texto == estimar_tokens_espanol(texto) IN
  IF MuyGrande(tokens_texto, budget)
  THEN [chunks |-> Append(st.chunks, <<texto>>),
        chunk_actual |-> <<>>, tokens_actual |-> 0]
  ELSE IF ChunkLleno(st.tokens_actual, tokens_texto, budget)
  THEN [chunks |-> Append(st.chunks, st.chunk_actual),
        chunk_actual |-> <<texto>>, tokens_actual |-> tokens_texto]
  ELSE [chunks |-> st.chunks,
        chunk_actual |-> Append(st.chunk_actual, texto),
        tokens_actual |-> st.tokens_actual + tokens_texto]

\* A loop body whose Caso 1 emits the running batch and the large text as one
\* batch.
IteracionJunta(st, texto, budget) ==
  LET tokens_texto == estimar_tokens_espanol(texto) IN
  IF MuyGrande(tokens_texto, budget)
  THEN [chunks |-> Append(st.chunks, Append(st.chunk_actual, texto)),
        chunk_actual |-> <<>>, tokens_actual |-> 0]
  ELSE IF ChunkLleno(st.tokens_actual, tokens_texto, budget)
  THEN [chunks |-> Append(st.chunks, st.chunk_actual),
        chunk_actual |-> <<texto>>, tokens_actual |-> tokens_texto]
  ELSE [chunks |-> st.chunks,
        chunk_actual |-> Append(st.chunk_actual, texto),
        tokens_actual |-> st.tokens_actual + tokens_texto]

\* One iteration of "for texto in textos".
Iteracion(st, texto, budget) ==
  LET tokens_texto == estimar_tokens_espanol(texto) IN
  IF MuyGrande(tokens_texto, budget)
  THEN \* Caso 1: flush the running batch if it is not empty, then a singleton
       IF st.chunk_actual # <<>>
       THEN [chunks |-> Append(Append(st.chunks, st.chunk_actual), <<texto>>),
             chunk_actual |-> <<>>, tokens_actual |-> 0]
       ELSE [chunks |-> Append(st.chunks, <<texto>>),
             chunk_actual |-> st.chunk_actual,
             tokens_actual |-> st.tokens_actual]
  ELSE IF ChunkLleno(st.tokens_actual, tokens_texto, budget)
  THEN \* Caso 2: the running batch is appended whether or not it is empty
       [chunks |-> Append(st.chunks, st.chunk_actual),
        chunk_actual |-> <<texto>>, tokens_actual |-> tokens_texto]
  ELSE \* Caso 3
       [chunks |-> st.chunks,
        chunk_actual |-> Append(st.chunk_actual, texto),
        tokens_actual |-> st.tokens_actual + tokens_texto]

\* "if chunk_actual: chunks.append(chunk_actual)" after the loop; the value
\* returned.
FlushFinal(st) ==
  IF st.chunk_actual # <<>> THEN Append(st.chunks, st.chunk_actual)
  ELSE st.chunks

RECURSIVE Bucle(_, _, _)
Bucle(st, txts, budget) ==
  IF txts = <<>> THEN st
  ELSE Bucle(Iteracion(st, Head(txts), budget), Tail(txts), budget)

\* The whole function, as procesar_documentos calls it.
crear_chunks_inteligentes(txts, budget) ==
  FlushFinal(Bucle(EstadoInicial, txts, budget))

\* ------------------------------------------------------------ the cache
Tipos == {"proyectos", "personas"}
Semillas == 1..NumSemillas

\* hash(str(textos)): Python salts the hash of a string with a seed drawn
\* when the process starts (PYTHONHASHSEED), so the value depends on the
\* process.  Collisions of the 64-bit hash are not modelled.
hash(sem, txts) == <<sem, txts>>

\* hashlib.md5(f"{chunk_id}:{self.consulta_tipo}:{hash(str(textos))}"): the
\* formatted string determines its three fields and MD5 is taken as
\* collision-free, so the digest is represented by the triple.
cache_hash(chunk_id, tipo, txts, sem) == <<chunk_id, tipo, hash(sem, txts)>>

\* the inputs the key is derived from
EntradasClave(chunk_id, tipo, txts) == <<chunk_id, tipo, txts>>

\* A cache file is complete JSON ("valido") or was left truncated by a write
\* that failed after open() ("corrupto").
Corrupto == [estado |-> "corrupto"]
Valido(v) == [estado |-> "valido", valor |-> v]

\* a cache read that never finds the file
EntradaNuncaLegible(c, clave) == FALSE

\* "if cache_file.exists(): try: return json.load(f) except: pass": the entry
\* is returned when the file exists and parses.
EntradaLegible(c, clave) == clave \in DOMAIN c /\ c[clave].estado = "valido"

\* the replies consultar_deepseek can return: a reply holding a JSON object,
\* and an error string
Respuestas == {"json_a", "ERROR_API_500"}
RespuestasJson == {"json_a"}

\* _parsear_respuesta_json, on the abstract replies: the parsed object, or
\* the fallback
ParsearRespuesta(respuesta) ==
  IF respuesta \in RespuestasJson THEN [json |-> respuesta]
  ELSE [respuesta_texto |-> respuesta, error |-> "no_json_valido"]

\* resultado["chunk_id"] = chunk_id; resultado["documentos"] = documentos
ConMetadatos(resultado, chunk_id, documentos) ==
  [chunk_id |-> chunk_id, documentos |-> documentos] @@ resultado

\* the outcomes of "with open(cache_file, 'w') ...: json.dump(...)" in its
\* try block: written; open() raised (the file is as before); open()
\* truncated the file and the dump raised
Escrituras == {"ok", "falla_open", "falla_dump"}

Guardar(c, clave, resultado, escritura) ==
  IF escritura = "falla_open" THEN c
  ELSE [k \in DOMAIN c \cup {clave} |->
          IF k # clave THEN c[k]
          ELSE IF escritura = "ok" THEN Valido(resultado) ELSE Corrupto]

\* procesar_chunk without the try around the write: a failed write ends the
\* call with the exception instead of the result.
procesar_chunk_sin_try(c, sem, tipo, chunk_id, documentos, txts, respuesta, escritura) ==
  LET clave == cache_hash(chunk_id, tipo, txts, sem) IN
  IF EntradaLegible(c, clave)
  THEN [valor |-> c[clave].valor, cache |-> c, llm |-> FALSE,
        clave |-> clave, escritura |-> "ninguna"]
  ELSE LET resultado ==
             ConMetadatos(ParsearRespuesta(respuesta), chunk_id, documentos)
       IN [valor |-> IF escritura = "ok" THEN resultado
                     ELSE [excepcion |-> "OSError"],
           cache |-> Guardar(c, clave, resultado, escritura),
           llm |-> TRUE, clave |-> clave, escritura |-> escritura]

\* procesar_chunk whose cache read does not return: the entry is read, then
\* the batch is computed and written again.
procesar_chunk_sin_retorno(c, sem, tipo, chunk_id, documentos, txts, respuesta, escritura) ==
  LET clave == cache_hash(chunk_id, tipo, txts, sem)
      resultado ==
        ConMetadatos(ParsearRespuesta(respuesta), chunk_id, documentos)
  IN [valor |-> resultado,
      cache |-> Guardar(c, clave, resultado, escritura),
      llm |-> TRUE, clave |-> clave, escritura |-> escritura]

\* procesar_chunk that stores parsed objects only: a fallback result is
\* returned and not written.
procesar_chunk_sin_guardar_fallback(c, sem, tipo, chunk_id, documentos, txts, respuesta, escritura) ==
  LET clave == cache_hash(chunk_id, tipo, txts, sem) IN
  IF EntradaLegible(c, clave)
  THEN [valor |-> c[clave].valor, cache |-> c, llm |-> FALSE,
        clave |-> clave, escritura |-> "ninguna"]
  ELSE LET resultado ==
             ConMetadatos(ParsearRespuesta(respuesta), chunk_id, documentos)
       IN [valor |-> resultado,
           cache |-> IF respuesta \in RespuestasJson
                     THEN Guardar(c, clave, resultado, escritura)
                     ELSE c,
           llm |-> TRUE, clave |-> clave, escritura |-> escritura]

\* procesar_chunk: the value returned, the cache afterwards, whether the LLM
\* was asked.  respuesta is what consultar_deepseek returns if it is called,
\* escritura the outcome of the write if it is attempted.
procesar_chunk(c, sem, tipo, chunk_id, documentos, txts, respuesta, escritura) ==
  LET clave == cache_hash(chunk_id, tipo, txts, sem) IN
  IF EntradaLegible(c, clave)
  THEN [valor |-> c[clave].valor, cache |-> c, llm |-> FALSE,
        clave |-> clave, escritura |-> "ninguna"]
  ELSE LET resultado ==
             ConMetadatos(ParsearRespuesta(respuesta), chunk_id, documentos)
       IN [valor |-> resultado,
           cache |-> Guardar(c, clave, resultado, escritura),
           llm |-> TRUE, clave |-> clave, escritura |-> escritura]

\* ------------------------------------------------------ procesar_documentos
\* the words a document's text can have after texto[:5000]: at most one word
\* every two characters
MaxPalabrasDoc == LimiteCaracteres \div 2
PalabrasPdf == {1, MaxPalabrasDoc}

\* What extraer_texto_relevante and the filter of Paso 1 make of one PDF:
\* whether it gave more than 200 characters, and the words of the text kept.
ExtraccionesUtiles == {[util |-> TRUE, palabras |-> w] : w \in PalabrasPdf}
Extracciones == {[util |-> FALSE, palabras |-> 0]} \cup ExtraccionesUtiles

\* The directories of at most n PDFs with distinct file names (1, 2, ...), in
\* glob order.
Corpora(extracciones, n) ==
  UNION {{[i \in 1..m |-> [nombre |-> i, util |-> e[i].util,
                           palabras |-> e[i].palabras]] :
            e \in [1..m -> extracciones]} : m \in 0..n}

\* "if max_docs: pdf_paths = pdf_paths[:max_docs]" (0 stands for None)
Limitar(pdfs, n) ==
  IF n # 0 /\ n < Len(pdfs) THEN SubSeq(pdfs, 1, n) ELSE pdfs

\* Paso 1: the PDFs that gave text, in order
Utiles(pdfs) == SelectSeq(pdfs, LAMBDA d : d.util)
Campo(pdfs, f) == [k \in 1..Len(pdfs) |-> pdfs[k][f]]

\* "Mapear indices de textos a nombres de documentos": the slice of
\* documentos_nombres taken for batch i (0-based) of n texts
NombresDeChunk(nombres, i, n) ==
  IF i + n <= Len(nombres) THEN SubSeq(nombres, i + 1, i + n)
  ELSE SubSeq(nombres, i + 1, Len(nombres))

\* history: no call yet
NingunaLlamada ==
  [n |-> 0, corrida |-> 0, chunk_id |-> 0, tipo |-> "", textos |-> <<>>,
   documentos |-> <<>>, clave |-> <<>>, habia |-> FALSE, llm |-> FALSE,
   respuesta |-> "", valor |-> [json |-> ""], escritura |-> "ninguna"]

RunIdle ==
  /\ corpus = <<>>
  /\ comando = ""
  /\ max_docs = 0
  /\ cache = <<>>
  /\ fase = "inactivo"
  /\ semilla = 0
  /\ consulta_tipo = ""
  /\ documentos_nombres = <<>>
  /\ chunks_docs = <<>>
  /\ i_chunk = 0
  /\ resultados_chunks = <<>>
  /\ llamadas = 0
  /\ corridas = 0
  /\ limpiezas = 0
  /\ ultima = NingunaLlamada
  /\ historia = <<>>

\* ------------------------------------------------- SpecChunks: one call
SeqsHasta(S, n) == UNION {[1..k -> S] : k \in 0..n}

InitChunks ==
  /\ textos \in SeqsHasta(0..MaxPalabras, MaxTextos)
  /\ max_tokens \in 1..MaxBudget
  /\ pos = 0
  /\ chunks = <<>>
  /\ chunk_actual = <<>>
  /\ tokens_actual = 0
  /\ pc = "bucle"
  /\ RunIdle
  /\ PurasIdle

Local == [chunks |-> chunks, chunk_actual |-> chunk_actual,
          tokens_actual |-> tokens_actual]

\* one iteration of the for loop
Iterar ==
  /\ pc = "bucle"
  /\ pos < Len(textos)
  /\ LET st == Iteracion(Local, textos[pos + 1], max_tokens) IN
       /\ chunks' = st.chunks
       /\ chunk_actual' = st.chunk_actual
       /\ tokens_actual' = st.tokens_actual
  /\ pos' = pos + 1
  /\ UNCHANGED <<textos, max_tokens, pc>>
  /\ UNCHANGED varsRun
  /\ UNCHANGED varsPuras
  /\ UNCHANGED varsApi
  /\ UNCHANGED varsConsulta
  /\ UNCHANGED varsDos

\* the loop is over: the last flush and the return
Retornar ==
  /\ pc = "bucle"
  /\ pos = Len(textos)
  /\ chunks' = FlushFinal(Local)
  /\ pc' = "fin"
  /\ UNCHANGED <<textos, max_tokens, pos, chunk_actual, tokens_actual>>
  /\ UNCHANGED varsRun
  /\ UNCHANGED varsPuras
  /\ UNCHANGED varsApi
  /\ UNCHANGED varsConsulta
  /\ UNCHANGED varsDos

NextChunks == Iterar \/ Retornar

SpecChunks == InitChunks /\ [][NextChunks]_vars

\* ------------------------------------------------------- Spec: the runs
\* no process has run and the cache directory is empty
Reposo ==
  /\ cache = <<>>
  /\ fase = "inactivo"
  /\ semilla = 0
  /\ consulta_tipo = ""
  /\ documentos_nombres = <<>>
  /\ chunks_docs = <<>>
  /\ i_chunk = 0
  /\ resultados_chunks = <<>>
  /\ llamadas = 0
  /\ ultima = NingunaLlamada
  /\ historia = <<>>
  /\ textos = <<>> /\ max_tokens = TOKENS_POR_CHUNK /\ pos = 0
  /\ chunks = <<>> /\ chunk_actual = <<>> /\ tokens_actual = 0 /\ pc = "fin"

\* Spec: a small directory and a query type; the same command is run again
\* and again, the cache being cleared now and then.
Init ==
  /\ corpus \in Corpora(Extracciones, MaxPdfs)
  /\ comando \in Tipos
  /\ max_docs = 0
  /\ corridas = 0
  /\ limpiezas = 0
  /\ Reposo
  /\ PurasIdle

\* SpecLote: one run (the last the bounds allow) over a directory large enough
\* for several batches, with or without --probar N, from an empty cache.
InitLote ==
  /\ corpus \in Corpora(ExtraccionesUtiles, MaxPdfsLote)
  /\ comando \in Tipos
  /\ max_docs \in 0..MaxPdfsLote
  /\ corridas = MaxCorridas - 1
  /\ limpiezas = MaxLimpiezas
  /\ Reposo
  /\ PurasIdle

\* history kept per cache key: the inputs it was derived from, the calls made
\* with it, and what happened once a write under it had succeeded
SinHistoria(ki) ==
  [ki |-> ki, llamadas |-> 0, llm |-> 0, valores |-> {}, escritos |-> {},
   corrida_escrito |-> 0, valores_desde |-> {}, llm_tras |-> 0]

Anotar(h, ki, r, corrida) ==
  LET antes == IF r.clave \in DOMAIN h THEN h[r.clave] ELSE SinHistoria(ki)
      ya == antes.escritos # {}
      ahora ==
        [ki |-> ki,
         llamadas |-> antes.llamadas + 1,
         llm |-> antes.llm + (IF r.llm THEN 1 ELSE 0),
         valores |-> antes.valores \cup {r.valor},
         escritos |-> antes.escritos \cup
                        (IF r.escritura = "ok" THEN {r.valor} ELSE {}),
         corrida_escrito |->
           IF ~ya /\ r.escritura = "ok" THEN corrida
           ELSE antes.corrida_escrito,
         valores_desde |->
           IF ya \/ r.escritura = "ok"
           THEN antes.valores_desde \cup {r.valor}
           ELSE antes.valores_desde,
         llm_tras |-> antes.llm_tras + (IF ya /\ r.llm THEN 1 ELSE 0)]
  IN [k \in DOMAIN h \cup {r.clave} |-> IF k = r.clave THEN ahora ELSE h[k]]

\* main: a process starts, procesar_documentos runs up to Paso 2
IniciarCorrida ==
  /\ fase = "inactivo"
  /\ corridas < MaxCorridas
  /\ \E sem \in Semillas :
       /\ semilla' = sem
       /\ consulta_tipo' = comando
       /\ LET pdfs == Utiles(Limitar(corpus, max_docs)) IN
            /\ documentos_nombres' = Campo(pdfs, "nombre")
            /\ chunks_docs' =
                 crear_chunks_inteligentes(Campo(pdfs, "palabras"),
                                           TOKENS_POR_CHUNK)
  /\ i_chunk' = 0
  /\ resultados_chunks' = <<>>
  /\ llamadas' = 0
  /\ fase' = "procesando"
  /\ corridas' = corridas + 1
  /\ UNCHANGED <<corpus, comando, max_docs, cache, limpiezas, ultima,
                 historia>>
  /\ UNCHANGED varsChunks
  /\ UNCHANGED varsPuras
  /\ UNCHANGED varsApi
  /\ UNCHANGED varsConsulta
  /\ UNCHANGED varsDos

\* Paso 3, one iteration: the names of the batch, procesar_chunk, append
ProcesarChunk ==
  /\ fase = "procesando"
  /\ i_chunk < Len(chunks_docs)
  /\ \E respuesta \in Respuestas, escritura \in Escrituras :
       LET chunk_textos == chunks_docs[i_chunk + 1]
           chunk_docs ==
             NombresDeChunk(documentos_nombres, i_chunk, Len(chunk_textos))
           r == procesar_chunk(cache, semilla, consulta_tipo, i_chunk,
                               chunk_docs, chunk_textos, respuesta, escritura)
           ki == EntradasClave(i_chunk, consulta_tipo, chunk_textos)
       IN
         /\ cache' = r.cache
         /\ resultados_chunks' = Append(resultados_chunks, r.valor)
         /\ llamadas' = llamadas + (IF r.llm THEN 1 ELSE 0)
         /\ ultima' =
              [n |-> ultima.n + 1, corrida |-> corridas, chunk_id |-> i_chunk,
               tipo |-> consulta_tipo, textos |-> chunk_textos,
               documentos |-> chunk_docs, clave |-> r.clave,
               habia |-> EntradaLegible(cache, r.clave), llm |-> r.llm,
               respuesta |-> IF r.llm THEN respuesta ELSE "",
               valor |-> r.valor, escritura |-> r.escritura]
         /\ historia' = Anotar(historia, ki, r, corridas)
  /\ i_chunk' = i_chunk + 1
  /\ UNCHANGED <<corpus, comando, max_docs, fase, semilla, consulta_tipo,
                 documentos_nombres, chunks_docs, corridas, limpiezas>>
  /\ UNCHANGED varsChunks
  /\ UNCHANGED varsPuras
  /\ UNCHANGED varsApi
  /\ UNCHANGED varsConsulta
  /\ UNCHANGED varsDos

FinDeProceso ==
  /\ fase' = "inactivo"
  /\ semilla' = 0
  /\ consulta_tipo' = ""
  /\ documentos_nombres' = <<>>
  /\ chunks_docs' = <<>>
  /\ i_chunk' = 0
  /\ resultados_chunks' = <<>>
  /\ llamadas' = 0
  /\ UNCHANGED <<corpus, comando, max_docs, cache, corridas, limpiezas,
                 ultima, historia>>
  /\ UNCHANGED varsChunks
  /\ UNCHANGED varsPuras
  /\ UNCHANGED varsApi
  /\ UNCHANGED varsConsulta
  /\ UNCHANGED varsDos

\* Paso 4 and the end of main: every batch is done, the process exits
Terminar ==
  /\ fase = "procesando"
  /\ i_chunk = Len(chunks_docs)
  /\ FinDeProceso

\* the process dies between two batches (there is no handler: an interrupt
\* or an unhandled failure ends the run)
Abortar ==
  /\ fase = "procesando"
  /\ i_chunk < Len(chunks_docs)
  /\ FinDeProceso

\* main --limpiar: shutil.rmtree("cache_v31").  On an empty directory the
\* command changes nothing and is left out.
Limpiar ==
  /\ fase = "inactivo"
  /\ limpiezas < MaxLimpiezas
  /\ DOMAIN cache # {}
  /\ cache' = <<>>
  /\ historia' = <<>>
  /\ limpiezas' = limpiezas + 1
  /\ UNCHANGED <<corpus, comando, max_docs, fase, semilla, consulta_tipo,
                 documentos_nombres, chunks_docs, i_chunk, resultados_chunks,
                 llamadas, corridas, ultima>>
  /\ UNCHANGED varsChunks
  /\ UNCHANGED varsPuras
  /\ UNCHANGED varsApi
  /\ UNCHANGED varsConsulta
  /\ UNCHANGED varsDos

Next == IniciarCorrida \/ ProcesarChunk \/ Terminar \/ Abortar \/ Limpiar

Spec == Init /\ [][Next]_vars

NextLote == IniciarCorrida \/ ProcesarChunk \/ Terminar \/ Abortar

SpecLote == InitLote /\ [][NextLote]_vars

\* ======================================================================
\* _parsear_respuesta_json (SpecParser)
\* ======================================================================
\* A reply is a sequence of symbols, each standing for a piece of text:
\*   "{"    the character {
\*   "}"    the character }
\*   "kv"   a member such as "nombre": "Olinia" (with the comma it needs)
\*   "k:{"  a key and the opening brace of its object value: "datos": {
\*   "txt"  prose that is not JSON and holds no brace
\*   "nl"   the line break \n
\* Blanks between symbols are left out: strip() and json.loads ignore them.
Simbolos == {"{", "}", "kv", "k:{", "txt", "nl"}

\* the number of characters a symbol stands for
Ancho(sim) ==
  CASE sim = "{" -> 1
    [] sim = "}" -> 1
    [] sim = "nl" -> 1
    [] sim = "kv" -> 20
    [] sim = "k:{" -> 10
    [] sim = "txt" -> 200

\* line.count('{') and line.count('}') of a symbol
Abre(sim) == IF sim \in {"{", "k:{"} THEN 1 ELSE 0
Cierra(sim) == IF sim = "}" THEN 1 ELSE 0

\* respuesta.split('\n'): the lines, at least one
RECURSIVE split(_)
split(s) ==
  IF \A k \in 1..Len(s) : s[k] # "nl" THEN <<s>>
  ELSE LET k == CHOOSE j \in 1..Len(s) :
                  s[j] = "nl" /\ \A h \in 1..(j - 1) : s[h] # "nl"
       IN <<SubSeq(s, 1, k - 1)>> \o split(SubSeq(s, k + 1, Len(s)))

\* '\n'.join(lines[a..b]) (1-based, inclusive)
RECURSIVE join(_, _, _)
join(lines, a, b) ==
  IF a > b THEN <<>>
  ELSE IF a = b THEN lines[a]
  ELSE lines[a] \o <<"nl">> \o join(lines, a + 1, b)

\* line.strip().startswith('{')
EmpiezaConLlave(line) == line # <<>> /\ line[1] = "{"

\* "Buscar inicio del JSON": the first line that starts with {, 0 if none
\* (the source's -1)
BuscarInicio(lines) ==
  IF \E i \in 1..Len(lines) : EmpiezaConLlave(lines[i])
  THEN CHOOSE i \in 1..Len(lines) :
         /\ EmpiezaConLlave(lines[i])
         /\ \A j \in 1..(i - 1) : ~EmpiezaConLlave(lines[j])
  ELSE 0

\* the change of brace_count over a sequence of symbols
RECURSIVE Balance(_)
Balance(s) ==
  IF s = <<>> THEN 0 ELSE Abre(Head(s)) - Cierra(Head(s)) + Balance(Tail(s))

\* brace_count after the lines json_start..i have been counted
RECURSIVE BraceCount(_, _, _)
BraceCount(lines, json_start, i) ==
  IF i < json_start THEN 0
  ELSE BraceCount(lines, json_start, i - 1) + Balance(lines[i])

\* "Encontrar el cierre correspondiente": the first line from json_start on
\* after which brace_count is 0, 0 if none (the source's -1)
BuscarCierre(lines, json_start) ==
  IF \E i \in json_start..Len(lines) : BraceCount(lines, json_start, i) = 0
  THEN CHOOSE i \in json_start..Len(lines) :
         /\ BraceCount(lines, json_start, i) = 0
         /\ \A j \in json_start..(i - 1) : BraceCount(lines, json_start, j) # 0
  ELSE 0

\* the symbols of a text without its line breaks (white space for json.loads)
SinSaltos(s) == SelectSeq(s, LAMBDA x : x # "nl")

\* the brace depth after the first k symbols
Profundidad(s, k) == Balance(SubSeq(s, 1, k))

\* Is the text one JSON object and nothing else: it opens with {, holds only
\* members and nested objects, and closes its first brace with its last symbol
EsObjetoJson(s) ==
  LET t == SinSaltos(s) IN
    /\ Len(t) >= 2
    /\ t[1] = "{"
    /\ \A k \in 2..Len(t) : t[k] \in {"kv", "k:{", "}"}
    /\ \A k \in 1..(Len(t) - 1) : Profundidad(t, k) >= 1
    /\ Profundidad(t, Len(t)) = 0

\* json.loads: the object parsed, or the exception raised
json_loads(s) ==
  IF EsObjetoJson(s) THEN [ok |-> TRUE, valor |-> SinSaltos(s)]
  ELSE [ok |-> FALSE]

\* respuesta[:n]: the whole symbols that fit in the first n characters and
\* how many characters of the next symbol are kept
RECURSIVE Recortar(_, _)
Recortar(s, n) ==
  IF s = <<>> \/ n <= 0 THEN [enteros |-> <<>>, resto |-> 0]
  ELSE IF Ancho(Head(s)) > n THEN [enteros |-> <<>>, resto |-> n]
  ELSE LET r == Recortar(Tail(s), n - Ancho(Head(s)))
       IN [enteros |-> <<Head(s)>> \o r.enteros, resto |-> r.resto]

\* respuesta[:500]
LargoVistaPrevia == 500

\* "Fallback: respuesta no es JSON valido"
Fallback(s) ==
  [estado |-> "fallback", respuesta_texto |-> Recortar(s, LargoVistaPrevia),
   error |-> "no_json_valido"]

Objeto(v) == [estado |-> "objeto", valor |-> v]
Excepcion == [estado |-> "excepcion"]

\* Variant of the parser without the try/except around json.loads.
parsear_respuesta_json_sin_try(s) ==
  LET lines == split(s)
      json_start == BuscarInicio(lines)
      json_end == IF json_start = 0 THEN 0 ELSE BuscarCierre(lines, json_start)
  IN IF json_start # 0 /\ json_end # 0
     THEN LET r == json_loads(join(lines, json_start, json_end))
          IN IF r.ok THEN Objeto(r.valor) ELSE Excepcion
     ELSE Fallback(s)

\* _parsear_respuesta_json
parsear_respuesta_json(s) ==
  LET lines == split(s)
      json_start == BuscarInicio(lines)
      json_end == IF json_start = 0 THEN 0 ELSE BuscarCierre(lines, json_start)
  IN IF json_start # 0 /\ json_end # 0
     THEN LET r == json_loads(join(lines, json_start, json_end))
          IN IF r.ok THEN Objeto(r.valor) ELSE Fallback(s)
     ELSE Fallback(s)

\* ---- SpecParser: one call on a reply of at most MaxRespuesta symbols
InitParser ==
  /\ respuesta_api \in SeqsHasta(Simbolos, MaxRespuesta)
  /\ parseado = Pendiente
  /\ consolidado = Pendiente
  /\ consulta_texto = <<>>
  /\ analisis = Pendiente
  /\ corpus = <<>> /\ comando = "" /\ max_docs = 0
  /\ corridas = 0 /\ limpiezas = 0
  /\ Reposo
  /\ ApiIdle
  /\ ConsultaIdle
  /\ DosIdle

Parsear ==
  /\ parseado = Pendiente
  /\ parseado' = parsear_respuesta_json(respuesta_api)
  /\ UNCHANGED <<respuesta_api, consolidado, consulta_texto, analisis>>
  /\ UNCHANGED varsApi
  /\ UNCHANGED varsConsulta
  /\ UNCHANGED varsDos
  /\ UNCHANGED varsChunks
  /\ UNCHANGED varsRun

NextParser == Parsear

SpecParser == InitParser /\ [][NextParser]_vars

\* ======================================================================
\* consolidar_resultados (SpecConsolidar)
\* ======================================================================
\* What a batch result can hold for the consolidation.  A project entry has a
\* name ("" stands for a missing or empty "nombre"), one descriptive field
\* and its "documentos": a list of document names or something that is not a
\* list.  Document names are numbered in their sort order.
Descripciones == {"d1", "d2"}
DocsProyecto == {1, 2}
Lista(items) == [lista |-> TRUE, items |-> items]
NoLista == [lista |-> FALSE, items |-> <<>>]

\* an entry without usable name; 'Kutsari' with either description and
\* either document; 'Kutsari' with "documentos" not a list; another entity
EntradasProyecto ==
  {[nombre |-> "", descripcion |-> "d1", documentos |-> Lista(<<1>>)]} \cup
  {[nombre |-> "Kutsari", descripcion |-> d, documentos |-> Lista(<<k>>)] :
     d \in Descripciones, k \in DocsProyecto} \cup
  {[nombre |-> "Kutsari", descripcion |-> "d1", documentos |-> NoLista],
   [nombre |-> "Olinia", descripcion |-> "d2", documentos |-> Lista(<<1>>)]}

\* a batch result with the key "proyectos", and one without it (the parser's
\* fallback), both with the chunk_id procesar_chunk adds
ConProyectos(chunk_id, proyectos) ==
  [chunk_id |-> chunk_id, proyectos |-> proyectos]
SinProyectos(chunk_id) ==
  [chunk_id |-> chunk_id, error |-> "no_json_valido"]

\* The shapes of self.resultados_chunks: per batch the number of project
\* entries (-1: no key "proyectos"), at most MaxLotesCons batches and
\* MaxEntradas entries in all
RECURSIVE SumaForma(_)
SumaForma(f) ==
  IF f = <<>> THEN 0
  ELSE (IF Head(f) > 0 THEN Head(f) ELSE 0) + SumaForma(Tail(f))

Formas ==
  {f \in SeqsHasta((-1)..MaxEntradas, MaxLotesCons) :
     SumaForma(f) <= MaxEntradas}

\* the batch results of shape f holding the entries of plano, in order
Construir(f, plano) ==
  [i \in 1..Len(f) |->
     IF f[i] < 0 THEN SinProyectos(i - 1)
     ELSE ConProyectos(i - 1,
            SubSeq(plano, SumaForma(SubSeq(f, 1, i - 1)) + 1,
                   SumaForma(SubSeq(f, 1, i))))]

\* for chunk in resultados_chunks: if "proyectos" in chunk: for proyecto in
\* chunk["proyectos"]: the entries the two loops visit, in order
RECURSIVE Visitados(_)
Visitados(chs) ==
  IF chs = <<>> THEN <<>>
  ELSE (IF "proyectos" \in DOMAIN Head(chs) THEN Head(chs).proyectos ELSE <<>>)
         \o Visitados(Tail(chs))

\* the items of a sequence, as a set
Rango(s) == {s[k] : k \in DOMAIN s}

\* the position of nombre in todos_proyectos (insertion order), 0 if absent
Posicion(todos, nombre) ==
  IF \E k \in DOMAIN todos : todos[k].nombre = nombre
  THEN CHOOSE k \in DOMAIN todos : todos[k].nombre = nombre
  ELSE 0

\* docs_proyecto = proyecto.get("documentos", []); the set update() adds
DocsDe(proyecto) ==
  IF proyecto.documentos.lista THEN Rango(proyecto.documentos.items) ELSE {}

\* Variant of the loop body that keeps only the documents of the occurrence
\* it is visiting.
VerProyectoSinUnion(todos, proyecto) ==
  IF proyecto.nombre = "" THEN todos
  ELSE LET k == Posicion(todos, proyecto.nombre) IN
       IF k = 0
       THEN Append(todos, [nombre |-> proyecto.nombre,
                           descripcion |-> proyecto.descripcion,
                           documentos |-> DocsDe(proyecto)])
       ELSE [todos EXCEPT ![k].documentos = DocsDe(proyecto)]

\* Variant of the loop body that copies the entry at every occurrence.
VerProyectoUltimoGana(todos, proyecto) ==
  IF proyecto.nombre = "" THEN todos
  ELSE LET k == Posicion(todos, proyecto.nombre) IN
       IF k = 0
       THEN Append(todos, [nombre |-> proyecto.nombre,
                           descripcion |-> proyecto.descripcion,
                           documentos |-> DocsDe(proyecto)])
       ELSE [todos EXCEPT ![k].descripcion = proyecto.descripcion,
                          ![k].documentos = @ \cup DocsDe(proyecto)]

\* the body of the inner loop: todos_proyectos after one entry
VerProyecto(todos, proyecto) ==
  IF proyecto.nombre = "" THEN todos
  ELSE LET k == Posicion(todos, proyecto.nombre) IN
       IF k = 0
       THEN Append(todos, [nombre |-> proyecto.nombre,
                           descripcion |-> proyecto.descripcion,
                           documentos |-> DocsDe(proyecto)])
       ELSE [todos EXCEPT ![k].documentos = @ \cup DocsDe(proyecto)]

\* todos_proyectos after the loops
RECURSIVE Acumular(_, _)
Acumular(todos, proyectos) ==
  IF proyectos = <<>> THEN todos
  ELSE Acumular(VerProyecto(todos, Head(proyectos)), Tail(proyectos))

\* the sequences that list the items of a set once each
ListasDe(S) ==
  {s \in [1..Cardinality(S) -> S] : Rango(s) = S}

\* list(a_set): the order in which a process iterates over a set of strings
\* depends on their (salted) hashes; orden is the order the process gives to
\* the document names, and the list of a set follows it
Ordenes == ListasDe(DocsProyecto)
list(S, orden) == SelectSeq(orden, LAMBDA d : d \in S)

\* Variant of the identity branch that returns the results in reverse order.
RECURSIVE Reverso(_)
Reverso(s) == IF s = <<>> THEN <<>> ELSE Append(Reverso(Tail(s)), Head(s))

ResultadoBasicoReverso(chs, tipo) ==
  [consulta |-> tipo, chunks_procesados |-> Len(chs),
   resultados |-> Reverso(chs)]

\* "Para otros tipos de consulta, retornar estructura basica"
ResultadoBasico(chs, tipo) ==
  [consulta |-> tipo, chunks_procesados |-> Len(chs), resultados |-> chs]

\* consolidar_resultados
consolidar_resultados(chs, tipo, orden) ==
  IF chs = <<>> THEN [error |-> "sin_resultados"]
  ELSE IF tipo = "proyectos"
  THEN LET todos == Acumular(<<>>, Visitados(chs)) IN
       [proyectos |->
          [k \in 1..Len(todos) |->
             [nombre |-> todos[k].nombre,
              descripcion |-> todos[k].descripcion,
              documentos |-> list(todos[k].documentos, orden),
              menciones |-> Len(list(todos[k].documentos, orden))]],
        total_proyectos |-> Len(todos)]
  ELSE ResultadoBasico(chs, tipo)

\* ---- SpecConsolidar: one call on the results of a run
InitConsolidar ==
  /\ \E f \in Formas : \E plano \in [1..SumaForma(f) -> EntradasProyecto] :
       resultados_chunks = Construir(f, plano)
  /\ consulta_tipo \in Tipos
  /\ consolidado = Pendiente
  /\ respuesta_api = <<>>
  /\ parseado = Pendiente
  /\ consulta_texto = <<>>
  /\ analisis = Pendiente
  /\ corpus = <<>> /\ comando = consulta_tipo /\ max_docs = 0
  /\ corridas = 0 /\ limpiezas = 0
  /\ cache = <<>> /\ fase = "procesando" /\ semilla = 0
  /\ documentos_nombres = <<>> /\ chunks_docs = <<>> /\ i_chunk = 0
  /\ llamadas = 0 /\ ultima = NingunaLlamada /\ historia = <<>>
  /\ textos = <<>> /\ max_tokens = TOKENS_POR_CHUNK /\ pos = 0
  /\ chunks = <<>> /\ chunk_actual = <<>> /\ tokens_actual = 0 /\ pc = "fin"
  /\ ApiIdle
  /\ ConsultaIdle
  /\ DosIdle

Consolidar ==
  /\ consolidado = Pendiente
  /\ \E orden \in Ordenes :
       consolidado' = consolidar_resultados(resultados_chunks, consulta_tipo, orden)
  /\ UNCHANGED <<respuesta_api, parseado, consulta_texto, analisis>>
  /\ UNCHANGED varsApi
  /\ UNCHANGED varsConsulta
  /\ UNCHANGED varsDos
  /\ UNCHANGED varsChunks
  /\ UNCHANGED varsRun

NextConsolidar == Consolidar

SpecConsolidar == InitConsolidar /\ [][NextConsolidar]_vars

\* ======================================================================
\* AnalizadorConsulta.analizar (SpecAnalizar)
\* ======================================================================
\* A query is a sequence of words.  In the text they stand for, words are
\* separated by one blank, except the question mark "?", which follows the
\* word before it directly; the word " ?" is a question mark with a blank
\* before it.  A phrase that a pattern matches as a whole ("De que trata",
\* "Es verdad") is one word.  Words are written without accents; the
\* patterns accept a vowel either way.
Palabras ==
  {"De que trata", "Es verdad", "dame", "proyectos", "el", "proyecto",
   "que", "Olinia", "?"}

\* str.lower() on one word
lower_palabra(w) ==
  CASE w = "De que trata" -> "de que trata"
    [] w = "Es verdad" -> "es verdad"
    [] w = "Olinia" -> "olinia"
    [] OTHER -> w

\* a question mark, with or without a blank before it
EsMarca(w) == w \in {"?", " ?"}

\* str.strip(): the text ends with a word; a blank at its start goes
strip(q) ==
  IF q # <<>> /\ q[1] = " ?" THEN <<"?">> \o Tail(q) ELSE q

\* the words of the query: four words and a question mark (SpecAnalizar), or
\* the words of a project question and both question marks
\* (SpecAnalizarEspacios)
PalabrasConEspacio ==
  {"De que trata", "el", "proyecto", "Olinia", "?", " ?"}

\* consulta_texto.lower().strip()
lower(q) == strip([k \in DOMAIN q |-> lower_palabra(q[k])])

\* the words of q from position p on, up to the first question mark
HastaInterrogacion(q, p) ==
  LET marcas == {k \in p..Len(q) : EsMarca(q[k])}
  IN IF marcas = {} THEN SubSeq(q, p, Len(q))
     ELSE SubSeq(q, p, (CHOOSE k \in marcas : \A j \in marcas : k <= j) - 1)

\* the position of the last question mark of q (0 if none)
UltimaInterrogacion(q) ==
  LET marcas == {k \in 1..Len(q) : EsMarca(q[k])}
  IN IF marcas = {} THEN 0
     ELSE CHOOSE k \in marcas : \A j \in marcas : k >= j

\* is the word at position p followed by a blank and another word
SigueOtra(q, p) == p + 1 <= Len(q) /\ ~EsMarca(q[p + 1])

\* is the word at position p followed by a blank
SigueBlanco(q, p) == p + 1 <= Len(q) /\ q[p + 1] # "?"

\* Rule 1 (info_proyecto), matched at the start of the query:
\*   (de que trata|que es|en que consiste)\s+(el\s+)?(proyecto)?\s*
\*   ["']?([^"'\?]+)["']?\s*\??
Frases1 == {"de que trata", "que es", "en que consiste"}

\* The alternative "que\s+es" also matches across two words: "que" followed
\* by a phrase that starts with "es"; the rest of that phrase then opens
\* group 2
TrasEs(w) ==
  CASE w = "es verdad" -> "verdad"
    [] w = "es mentira" -> "mentira"
    [] w = "es cierto" -> "cierto"
    [] w = "es falso" -> "falso"
    [] OTHER -> ""
QueEs(q) == q[1] = "que" /\ TrasEs(q[2]) # ""

Coincide1(q) ==
  /\ Len(q) >= 2
  /\ \/ q[1] \in Frases1 /\ ~EsMarca(q[2])
     \/ QueEs(q)

\* group 2 of rule 1, stripped: after the optional "el " and the optional
\* "proyecto" (taken only when a character is left for the group after it:
\* the rest of a longer word, or the blank before what follows), everything
\* up to the first question mark.  After "proyecto ?" the group is the blank
\* alone and the stripped value is empty.
Grupo1(q) ==
  IF QueEs(q) THEN <<TrasEs(q[2])>> \o HastaInterrogacion(q, 3)
  ELSE
  LET p == IF q[2] = "el" /\ SigueOtra(q, 2) THEN 3 ELSE 2
  IN IF q[p] = "proyecto" /\ SigueBlanco(q, p)
     THEN HastaInterrogacion(q, p + 1)
     ELSE IF q[p] = "proyectos"
     THEN <<"s">> \o HastaInterrogacion(q, p + 1)
     ELSE HastaInterrogacion(q, p)

\* Rule 2 (verificar): (es (verdad|mentira|cierto|falso)|verdad o mentira)
\*   [\s:,]*(.+)
Frases2 == {"es verdad", "es mentira", "es cierto", "es falso",
            "verdad o mentira"}
Coincide2(q) == Len(q) >= 2 /\ q[1] \in Frases2
Grupo2(q) == strip(SubSeq(q, 2, Len(q)))

\* Rule 3 (buscar_documentos): (en que documentos|donde aparece)[\s:,]+(.+)
Frases3 == {"en que documentos", "donde aparece"}
Coincide3(q) == Len(q) >= 2 /\ q[1] \in Frases3 /\ q[2] # "?"
Grupo3(q) == strip(SubSeq(q, 2, Len(q)))

\* Rule 4 (lista_simple):
\*   ^(dame|muestra|lista|extrae)\s+(los\s+)?(proyectos|personas|instituciones)
Verbos4 == {"dame", "muestra", "lista", "extrae"}
Listas4 == {"proyectos", "personas", "instituciones"}
Coincide4(q) ==
  /\ Len(q) >= 2
  /\ q[1] \in Verbos4
  /\ \/ q[2] \in Listas4
     \/ q[2] = "los" /\ Len(q) >= 3 /\ q[3] \in Listas4
Grupo4(q) == IF q[2] \in Listas4 THEN <<q[2]>> ELSE <<q[3]>>

\* Rules 5 to 7: ^proyectos$, ^personas$, ^instituciones$
CoincideDirecta(q, palabra) == q = <<palabra>>

\* Rule 8 (pregunta_general): (.+\?), at least one character and then a
\* question mark; the group runs to the last question mark
Coincide8(q) == UltimaInterrogacion(q) >= 2
Grupo8(q) == SubSeq(q, 1, UltimaInterrogacion(q))

\* patrones: the rule table, in its order
patrones ==
  <<"info_proyecto", "verificar", "buscar_documentos", "lista_simple",
    "proyectos", "personas", "instituciones", "pregunta_general">>
TipoDe(r) == patrones[r]

\* re.match(patron, consulta, re.IGNORECASE) for rule r
Coincide(r, q) ==
  CASE r = 1 -> Coincide1(q)
    [] r = 2 -> Coincide2(q)
    [] r = 3 -> Coincide3(q)
    [] r = 4 -> Coincide4(q)
    [] r = 5 -> CoincideDirecta(q, "proyectos")
    [] r = 6 -> CoincideDirecta(q, "personas")
    [] r = 7 -> CoincideDirecta(q, "instituciones")
    [] r = 8 -> Coincide8(q)

\* extractor(match) for rule r; the strip() of a group changes nothing, as a
\* group neither starts nor ends with a blank
Extraer(r, q) ==
  CASE r = 1 -> [proyecto |-> Grupo1(q)]
    [] r = 2 -> [afirmacion |-> Grupo2(q)]
    [] r = 3 -> [busqueda |-> Grupo3(q)]
    [] r = 4 -> [tipo |-> Grupo4(q)]
    [] r = 8 -> [pregunta |-> Grupo8(q)]
    [] OTHER -> <<>>

\* _determinar_accion
determinar_accion(tipo) ==
  CASE tipo = "info_proyecto" -> "obtener_info_proyecto"
    [] tipo = "verificar" -> "verificar_afirmacion"
    [] tipo = "buscar_documentos" -> "buscar_en_documentos"
    [] tipo = "lista_simple" -> "extraer_lista"
    [] tipo = "proyectos" -> "extraer_proyectos"
    [] tipo = "personas" -> "extraer_personas"
    [] tipo = "instituciones" -> "extraer_instituciones"
    [] tipo = "pregunta_general" -> "responder_pregunta"
    [] OTHER -> "buscar_informacion"

\* "Por defecto: busqueda general"
PorDefecto(ct) ==
  [tipo |-> "busqueda_general", parametros |-> [texto |-> ct],
   consulta_original |-> ct, accion |-> "buscar_informacion"]

\* the return value for rule r
Clasificada(r, q, ct) ==
  [tipo |-> TipoDe(r), parametros |-> Extraer(r, q),
   consulta_original |-> ct, accion |-> determinar_accion(TipoDe(r))]

\* Variant of the classifier that returns the last rule that matches.
analizar_ultima(ct) ==
  LET q == lower(ct)
      aciertos == {r \in DOMAIN patrones : Coincide(r, q)}
  IN IF aciertos = {} THEN PorDefecto(ct)
     ELSE Clasificada(CHOOSE r \in aciertos : \A x \in aciertos : r >= x, q, ct)

\* AnalizadorConsulta.analizar
analizar(ct) ==
  LET q == lower(ct)
      aciertos == {r \in DOMAIN patrones : Coincide(r, q)}
  IN IF aciertos = {} THEN PorDefecto(ct)
     ELSE Clasificada(CHOOSE r \in aciertos : \A x \in aciertos : r <= x, q, ct)

\* ---- SpecAnalizar: one call on a query of at most MaxConsulta words
InitAnalizar ==
  /\ consulta_texto \in SeqsHasta(Palabras, MaxConsulta)
  /\ analisis = Pendiente
  /\ respuesta_api = <<>>
  /\ parseado = Pendiente
  /\ consolidado = Pendiente
  /\ corpus = <<>> /\ comando = "" /\ max_docs = 0
  /\ corridas = 0 /\ limpiezas = 0
  /\ Reposo
  /\ ApiIdle
  /\ ConsultaIdle
  /\ DosIdle

Analizar ==
  /\ analisis = Pendiente
  /\ analisis' = analizar(consulta_texto)
  /\ UNCHANGED <<respuesta_api, parseado, consolidado, consulta_texto>>
  /\ UNCHANGED varsApi
  /\ UNCHANGED varsConsulta
  /\ UNCHANGED varsDos
  /\ UNCHANGED varsChunks
  /\ UNCHANGED varsRun

NextAnalizar == Analizar

SpecAnalizar == InitAnalizar /\ [][NextAnalizar]_vars

\* ---- SpecAnalizarEspacios: one call on a project question that may hold
\* a blank before a question mark
InitAnalizarEspacios ==
  /\ consulta_texto \in SeqsHasta(PalabrasConEspacio, MaxConsulta)
  /\ analisis = Pendiente
  /\ respuesta_api = <<>>
  /\ parseado = Pendiente
  /\ consolidado = Pendiente
  /\ corpus = <<>> /\ comando = "" /\ max_docs = 0
  /\ corridas = 0 /\ limpiezas = 0
  /\ Reposo
  /\ ApiIdle
  /\ ConsultaIdle
  /\ DosIdle

SpecAnalizarEspacios == InitAnalizarEspacios /\ [][NextAnalizar]_vars

\* ======================================================================
\* Properties of crear_chunks_inteligentes (checked under SpecChunks)
\* ======================================================================
RECURSIVE Aplanar(_)
Aplanar(chs) == IF chs = <<>> THEN <<>> ELSE Head(chs) \o Aplanar(Tail(chs))

RECURSIVE SumaTokens(_)
SumaTokens(chunk) ==
  IF chunk = <<>> THEN 0
  ELSE estimar_tokens_espanol(Head(chunk)) + SumaTokens(Tail(chunk))

\* the claims' thresholds, stated on their own
Sobre80(t, budget) == 10 * t > 8 * budget
Sobre75(t, budget) == 100 * t > 75 * budget

\* C1: the batches returned, concatenated in output order, are exactly the
\* input sequence (no loss, no reordering, no duplication).
C1_ConcatenacionReconstruye == pc = "fin" => Aplanar(chunks) = textos

\* C1 witness: a call that returned several batches for three texts.
C1_Witness == pc = "fin" /\ Len(textos) = 3 /\ Len(chunks) >= 2

\* C2: no batch of the returned list is empty.
C2_SinChunksVacios == pc = "fin" => \A i \in DOMAIN chunks : chunks[i] # <<>>

\* C4: a text whose estimate exceeds 0.8*B is alone in its batch.
C4_GrandeEsSingleton ==
  pc = "fin" =>
    \A i \in DOMAIN chunks : \A j \in DOMAIN chunks[i] :
      Sobre80(estimar_tokens_espanol(chunks[i][j]), max_tokens)
        => Len(chunks[i]) = 1

\* C4 witness: an oversized text arrived between two texts that are not
\* oversized, the first of them waiting in the running batch.
C4_Witness ==
  /\ pc = "fin" /\ Len(textos) = 3
  /\ Sobre80(estimar_tokens_espanol(textos[2]), max_tokens)
  /\ ~Sobre80(estimar_tokens_espanol(textos[1]), max_tokens)
  /\ ~Sobre80(estimar_tokens_espanol(textos[3]), max_tokens)
  /\ ~Sobre75(estimar_tokens_espanol(textos[1]), max_tokens)

\* C5 as stated: every batch other than the singleton batch of an oversized
\* text has a token sum of at most 0.75*B.
C5_Original ==
  pc = "fin" =>
    \A i \in DOMAIN chunks :
      \/ /\ Len(chunks[i]) = 1
         /\ Sobre80(estimar_tokens_espanol(chunks[i][1]), max_tokens)
      \/ ~Sobre75(SumaTokens(chunks[i]), max_tokens)

\* C5 amended: every batch of two or more texts has a token sum of at most
\* 0.75*B; only a singleton batch can exceed it, and its text need not be
\* oversized (its estimate may lie between 0.75*B and 0.8*B).
C5_SumaAcotada ==
  pc = "fin" =>
    \A i \in DOMAIN chunks :
      Len(chunks[i]) >= 2 => ~Sobre75(SumaTokens(chunks[i]), max_tokens)

\* C5 witness: a batch of two texts was closed because the next text would
\* have pushed it over 0.75*B, and that text, between 0.75*B and 0.8*B, makes
\* a singleton batch.
C5_Witness ==
  /\ pc = "fin" /\ Len(chunks) = 2
  /\ Len(chunks[1]) = 2 /\ SumaTokens(chunks[1]) > 0
  /\ Len(chunks[2]) = 1
  /\ Sobre75(SumaTokens(chunks[2]), max_tokens)
  /\ ~Sobre80(SumaTokens(chunks[2]), max_tokens)

\* ======================================================================
\* Properties of procesar_documentos (checked under SpecLote)
\* ======================================================================
\* the number of texts in the batches before batch i (1-based)
RECURSIVE TextosAntes(_, _)
TextosAntes(chs, i) ==
  IF i <= 1 THEN 0 ELSE Len(chs[i - 1]) + TextosAntes(chs, i - 1)

\* the names of the documents whose texts make up batch i (1-based)
NombresDelLote(i) ==
  SubSeq(documentos_nombres, TextosAntes(chunks_docs, i) + 1,
         TextosAntes(chunks_docs, i) + Len(chunks_docs[i]))

\* C3: the names passed to procesar_chunk for batch i, and stored as the
\* result's documentos, are the names of the documents whose texts make up
\* batch i, in order.
C3_NombresDelChunk ==
  fase = "procesando" =>
    /\ \A i \in 1..Len(resultados_chunks) :
         resultados_chunks[i].documentos = NombresDelLote(i)
    /\ i_chunk > 0 => ultima.documentos = NombresDelLote(i_chunk)

\* ======================================================================
\* Properties of procesar_chunk and the cache (checked under Spec)
\* ======================================================================
Fallida(e) == e \in {"falla_open", "falla_dump"}

C7_ClaveDeterminista ==
  \A k1, k2 \in DOMAIN historia :
    historia[k1].ki = historia[k2].ki => k1 = k2

\* C8: a batch that an earlier run processed and cached is not sent to the
\* LLM again by a later run with the same documents and intent.
C8_Reanudacion ==
  [][ ( /\ ultima'.n # ultima.n
        /\ \E k \in DOMAIN historia :
             /\ historia[k].ki = EntradasClave(ultima'.chunk_id, ultima'.tipo,
                                               ultima'.textos)
             /\ historia[k].escritos # {}
             /\ historia[k].corrida_escrito < ultima'.corrida )
      => ~ultima'.llm ]_vars

\* C9: a call whose cache write fails still returns the freshly computed
\* result with its chunk_id and documentos, the run goes on with it, no
\* complete entry is left under the key, and as long as no write under a key
\* has succeeded every call with that key computes again.
C9_EscrituraFallida ==
  /\ Fallida(ultima.escritura) =>
       /\ ultima.llm
       /\ {"chunk_id", "documentos"} \subseteq DOMAIN ultima.valor
       /\ ultima.valor.chunk_id = ultima.chunk_id
       /\ ultima.valor.documentos = ultima.documentos
       /\ \A f \in DOMAIN ParsearRespuesta(ultima.respuesta) :
            /\ f \in DOMAIN ultima.valor
            /\ ultima.valor[f] = ParsearRespuesta(ultima.respuesta)[f]
       /\ ~EntradaLegible(cache, ultima.clave)
       /\ (fase = "procesando" /\ ultima.corrida = corridas) =>
            /\ Len(resultados_chunks) = i_chunk
            /\ i_chunk = ultima.chunk_id + 1
            /\ resultados_chunks[i_chunk] = ultima.valor
  /\ \A k \in DOMAIN historia :
       historia[k].escritos = {} => historia[k].llm = historia[k].llamadas

\* C9 witness: a call's write failed and a later call with the same key, in
\* another run, computed the batch again.
C9_Witness ==
  /\ ultima.corrida = 2
  /\ ultima.clave \in DOMAIN historia
  /\ historia[ultima.clave].llamadas = 2
  /\ historia[ultima.clave].llm = 2
  /\ ultima.escritura = "ok"

C11_ParserTotal ==
  parseado # Pendiente =>
    \/ /\ parseado.estado = "objeto"
       /\ EsObjetoJson(parseado.valor)
    \/ /\ parseado.estado = "fallback"
       /\ parseado.respuesta_texto = Recortar(respuesta_api, LargoVistaPrevia)
       /\ parseado.error = "no_json_valido"

\* C11 witness: a reply longer than 500 characters whose first line opens a
\* brace that closes around malformed content: json.loads fails and the call
\* returns the fallback with the truncated reply.
C11_Witness ==
  /\ parseado # Pendiente
  /\ parseado.estado = "fallback"
  /\ Len(respuesta_api) >= 3
  /\ respuesta_api[1] = "{"
  /\ respuesta_api[2] = "txt"
  /\ BuscarCierre(split(respuesta_api), 1) # 0
  /\ Len(parseado.respuesta_texto.enteros) < Len(respuesta_api)

\* the first balanced {...} span of a reply, from its first { character
\* wherever it stands to the } that brings the brace depth back to 0 (the
\* empty sequence when there is none)
PrimerTramo(s) ==
  LET abiertos == {k \in 1..Len(s) : Abre(s[k]) = 1}
  IN IF abiertos = {} THEN <<>>
     ELSE LET a == CHOOSE k \in abiertos : \A j \in abiertos : k <= j
              cierres == {k \in a..Len(s) : Balance(SubSeq(s, a, k)) = 0}
          IN IF cierres = {} THEN <<>>
             ELSE LET b == CHOOSE k \in cierres : \A j \in cierres : k <= j
                  IN <<"{">> \o SubSeq(s, a + 1, b)

\* C12: whenever the first balanced {...} span of the reply, counted from the
\* first { character wherever it occurs, is valid structured data, the parser
\* returns the object parsed from that span (text before the object on its
\* line, or after its closing brace, does not matter).
C12_PrimerTramoBalanceado ==
  (parseado # Pendiente /\ EsObjetoJson(PrimerTramo(respuesta_api))) =>
    parseado = Objeto(SinSaltos(PrimerTramo(respuesta_api)))

\* ======================================================================
\* Properties of consolidar_resultados (checked under SpecConsolidar)
\* ======================================================================
\* the call has returned the consolidation of a 'proyectos' run with results
ProyectosConsolidados ==
  /\ consolidado # Pendiente
  /\ consulta_tipo = "proyectos"
  /\ resultados_chunks # <<>>

\* the project entries of all batch results, in batch order
Entradas == Visitados(resultados_chunks)

\* the documents that the entries named nombre list
UnionDocs(nombre) ==
  UNION {DocsDe(Entradas[j]) : j \in {i \in DOMAIN Entradas : Entradas[i].nombre = nombre}}

\* C13: for 'proyectos' the batch results are merged into one entry per
\* distinct entity name; the entry's documents are the union of the document
\* lists of every batch entry with that name and its 'menciones' is the size
\* of that union.
C13_UnionPorNombre ==
  ProyectosConsolidados =>
    LET salida == consolidado.proyectos
        nombres == {Entradas[j].nombre : j \in DOMAIN Entradas} \ {""}
    IN /\ {salida[k].nombre : k \in DOMAIN salida} = nombres
       /\ Len(salida) = Cardinality(nombres)
       /\ consolidado.total_proyectos = Cardinality(nombres)
       /\ \A k \in DOMAIN salida :
            /\ Rango(salida[k].documentos) = UnionDocs(salida[k].nombre)
            /\ Len(salida[k].documentos) = Cardinality(UnionDocs(salida[k].nombre))
            /\ salida[k].menciones = Cardinality(UnionDocs(salida[k].nombre))

\* C13 witness: two batches each report 'Kutsari' with disjoint documents and
\* the merged entry counts both.
C13_Witness ==
  /\ ProyectosConsolidados
  /\ Len(resultados_chunks) = 2
  /\ \A i \in 1..2 :
       /\ "proyectos" \in DOMAIN resultados_chunks[i]
       /\ \E j \in DOMAIN resultados_chunks[i].proyectos :
            /\ resultados_chunks[i].proyectos[j].nombre = "Kutsari"
            /\ DocsDe(resultados_chunks[i].proyectos[j]) = {i}
  /\ \E k \in DOMAIN consolidado.proyectos :
       /\ consolidado.proyectos[k].nombre = "Kutsari"
       /\ consolidado.proyectos[k].menciones = 2

\* C14: in the final 'proyectos' output each entity's 'documentos' is the
\* list of its unioned documents in ascending order of document name.
C14_DocumentosOrdenados ==
  ProyectosConsolidados =>
    \A k \in DOMAIN consolidado.proyectos :
      LET docs == consolidado.proyectos[k].documentos IN
        \A i, j \in DOMAIN docs : i < j => docs[i] < docs[j]

\* the first entry, in batch order, with the name nombre
PrimeraOcurrencia(nombre) ==
  Entradas[CHOOSE j \in DOMAIN Entradas :
             /\ Entradas[j].nombre = nombre
             /\ \A i \in 1..(j - 1) : Entradas[i].nombre # nombre]

\* C15: first occurrence wins for descriptive fields: every field of a merged
\* entity other than 'documentos' and 'menciones' has the value of the
\* earliest entry with that name, in batch order.
C15_PrimeraOcurrenciaGana ==
  ProyectosConsolidados =>
    \A k \in DOMAIN consolidado.proyectos :
      LET e == consolidado.proyectos[k] IN
        /\ e.nombre # ""
        /\ e.descripcion = PrimeraOcurrencia(e.nombre).descripcion

\* C15 witness: a name occurs twice with different descriptions.
C15_Witness ==
  /\ ProyectosConsolidados
  /\ \E i, j \in DOMAIN Entradas :
       /\ i < j
       /\ Entradas[i].nombre # ""
       /\ Entradas[i].nombre = Entradas[j].nombre
       /\ Entradas[i].descripcion # Entradas[j].descripcion
       /\ DocsDe(Entradas[j]) # {}

\* C16 as stated: for every intent other than 'proyectos' the call returns
\* the batch results unchanged and in order as 'resultados', and their number
\* as 'chunks_procesados'.
C16_Original ==
  (consolidado # Pendiente /\ consulta_tipo # "proyectos") =>
    /\ "resultados" \in DOMAIN consolidado
    /\ consolidado.resultados = resultados_chunks
    /\ consolidado.chunks_procesados = Len(resultados_chunks)

\* C16 amended: for every intent other than 'proyectos', when there is at
\* least one batch result the call returns the batch results unchanged and in
\* order as 'resultados' and their number as 'chunks_procesados'; when there
\* is none it returns the error object 'sin_resultados' instead.
C16_IdentidadSiHayResultados ==
  (consolidado # Pendiente /\ consulta_tipo # "proyectos") =>
    IF resultados_chunks # <<>>
    THEN /\ DOMAIN consolidado = {"consulta", "chunks_procesados", "resultados"}
         /\ consolidado.consulta = consulta_tipo
         /\ consolidado.resultados = resultados_chunks
         /\ consolidado.chunks_procesados = Len(resultados_chunks)
    ELSE consolidado = [error |-> "sin_resultados"]

\* C16 witness: a 'personas' run with two different batch results.
C16_Witness ==
  /\ consolidado # Pendiente
  /\ consulta_tipo = "personas"
  /\ Len(resultados_chunks) = 2
  /\ "proyectos" \in DOMAIN resultados_chunks[1]
  /\ "proyectos" \notin DOMAIN resultados_chunks[2]

\* ======================================================================
\* Properties of AnalizadorConsulta.analizar (checked under SpecAnalizar)
\* ======================================================================
\* the rules whose pattern matches the lower-cased query
Aciertos == {r \in DOMAIN patrones : Coincide(r, lower(consulta_texto))}

\* C17: analizar returns exactly one (intent, parameters) result for every
\* query: the intent of the first rule of the table whose pattern matches the
\* lower-cased query, and 'busqueda_general' when no rule matches.
C17_PrimeraReglaGana ==
  analisis # Pendiente =>
    /\ DOMAIN analisis = {"tipo", "parametros", "consulta_original", "accion"}
    /\ analisis.consulta_original = consulta_texto
    /\ IF Aciertos = {} THEN analisis.tipo = "busqueda_general"
       ELSE \E r \in Aciertos :
              /\ \A x \in Aciertos : r <= x
              /\ analisis.tipo = patrones[r]

\* C17 witness: a query that two rules match ('verificar' and the general
\* question) is classified by the earlier one.
C17_Witness ==
  /\ analisis # Pendiente
  /\ {2, 8} \subseteq Aciertos
  /\ analisis.tipo = "verificar"

\* C18: every question that contains a verification phrase and ends with a
\* question mark is classified 'verificar', never 'pregunta_general'.
C18_VerificarAntesQuePregunta ==
  (/\ analisis # Pendiente
   /\ \E k \in DOMAIN consulta_texto : lower_palabra(consulta_texto[k]) \in Frases2
   /\ consulta_texto[Len(consulta_texto)] = "?")
  => analisis.tipo = "verificar"

\* the words between position p and the closing question mark, when the
\* query ends with its only question mark after at least one such word
Cuerpo(q, p) == SubSeq(q, p, Len(q) - 1)
TerminaEnPregunta(q, p) ==
  /\ Len(q) >= p + 1
  /\ q[Len(q)] = "?"
  /\ \A k \in p..(Len(q) - 1) : q[k] # "?"

\* C19: for 'De que trata el proyecto X?' analizar returns 'info_proyecto'
\* with the parameter proyecto equal to X exactly as the user wrote it.
C19_ProyectoComoSeEscribio ==
  (/\ analisis # Pendiente
   /\ TerminaEnPregunta(consulta_texto, 4)
   /\ SubSeq(consulta_texto, 1, 3) = <<"De que trata", "el", "proyecto">>)
  => /\ analisis.tipo = "info_proyecto"
     /\ analisis.parametros.proyecto = Cuerpo(consulta_texto, 4)

\* C20: for 'Es verdad que S?' analizar returns 'verificar' with the
\* parameter afirmacion equal to S alone, without the leading 'que' and
\* without the closing question mark.
C20_AfirmacionSola ==
  (/\ analisis # Pendiente
   /\ TerminaEnPregunta(consulta_texto, 3)
   /\ SubSeq(consulta_texto, 1, 2) = <<"Es verdad", "que">>)
  => /\ analisis.tipo = "verificar"
     /\ analisis.parametros.afirmacion = Cuerpo(consulta_texto, 3)

\* ======================================================================
\* Properties of analizar on questions with a blank before the question
\* mark (checked under SpecAnalizarEspacios)
\* ======================================================================
\* the rules that match and whose extractor yields no parameter value
SinParametro ==
  {r \in Aciertos : \E k \in DOMAIN Extraer(r, lower(consulta_texto)) :
                       Extraer(r, lower(consulta_texto))[k] = <<>>}

\* C21: a rule whose pattern matches but whose extractor yields an empty
\* value is passed over: analizar returns the first matching rule that has
\* its parameter, and never a result with an empty parameter.
C21_ReglaSinParametroSeSalta ==
  analisis # Pendiente =>
    LET utiles == Aciertos \ SinParametro
    IN IF utiles = {} THEN analisis.tipo = "busqueda_general"
       ELSE \E r \in utiles :
              /\ \A x \in utiles : r <= x
              /\ analisis.tipo = patrones[r]

\* ======================================================================
\* consultar_deepseek (extractor): the gateway to the LLM endpoint
\* ======================================================================
Prompts == {"prompt_a", "prompt_b"}
Sistemas == {"", "sistema"}

\* messages: the system message, if there is one, then the user prompt
Mensajes(p, sm) ==
  (IF sm # "" THEN <<[role |-> "system", content |-> sm]>> ELSE <<>>)
  \o <<[role |-> "user", content |-> p]>>

\* What one requests.post can end in: an exception of the transport
\* (connection refused, timeout after 60 s), or a response with a status
\* code and a body.  The body of a 200 response is the completion with its
\* text, a completion whose content is null, a JSON object without
\* "choices", or not JSON at all.
Cuerpos == {"contenido", "contenido_nulo", "sin_choices", "no_json"}

Resultados ==
  {[falla |-> TRUE, status |-> 0, cuerpo |-> ""]}
  \cup {[falla |-> FALSE, status |-> 200, cuerpo |-> c] : c \in Cuerpos}
  \cup {[falla |-> FALSE, status |-> st, cuerpo |-> ""] : st \in {429, 500}}

\* str(e) of the exceptions that can reach the except clause
MensajeDe(r) ==
  IF r.falla THEN "Connection refused"
  ELSE CASE r.cuerpo = "sin_choices" -> "'choices'"
         [] r.cuerpo = "no_json" -> "Expecting value: line 1 column 1 (char 0)"
         [] OTHER -> ""

MensajeRecursion == "maximum recursion depth exceeded while calling a Python object"

\* str(e)[:50]
Primeros50(m) ==
  IF m = MensajeRecursion
  THEN "maximum recursion depth exceeded while calling a P"
  ELSE m

\* except Exception as e: return f"ERROR_CONEXION: {str(e)[:50]}"
ErrorConexion(m) == "ERROR_CONEXION: " \o Primeros50(m)

\* response.json()["choices"][0]["message"]["content"]
Contenido(cuerpo) ==
  IF cuerpo = "contenido" THEN "texto de la respuesta" ELSE "None"

\* the value an exception leaves a call with when nothing catches it
ExcepcionApi == "excepcion"

\* Variant of the handler in which a rate-limit response is retried at once.
atender_sin_espera(prof, r) ==
  IF r.falla THEN [reintenta |-> FALSE, duerme |-> 0,
                   valor |-> ErrorConexion(MensajeDe(r))]
  ELSE IF r.status = 200
  THEN [reintenta |-> FALSE, duerme |-> 0,
        valor |-> IF r.cuerpo \in {"sin_choices", "no_json"}
                  THEN ErrorConexion(MensajeDe(r))
                  ELSE Contenido(r.cuerpo)]
  ELSE IF r.status = 429
  THEN IF prof < LimiteRecursion
       THEN [reintenta |-> TRUE, duerme |-> 0, valor |-> SinRetorno]
       ELSE [reintenta |-> FALSE, duerme |-> 0,
             valor |-> ErrorConexion(MensajeRecursion)]
  ELSE [reintenta |-> FALSE, duerme |-> 0,
        valor |-> "ERROR_API_" \o ToString(r.status)]

\* Variant of the handler whose try has no except clause.
atender_sin_try(prof, r) ==
  IF r.falla THEN [reintenta |-> FALSE, duerme |-> 0, valor |-> ExcepcionApi]
  ELSE IF r.status = 200
  THEN [reintenta |-> FALSE, duerme |-> 0,
        valor |-> IF r.cuerpo \in {"sin_choices", "no_json"}
                  THEN ExcepcionApi
                  ELSE Contenido(r.cuerpo)]
  ELSE IF r.status = 429
  THEN IF prof < LimiteRecursion
       THEN [reintenta |-> TRUE, duerme |-> EsperaRateLimit,
             valor |-> SinRetorno]
       ELSE [reintenta |-> FALSE, duerme |-> EsperaRateLimit,
             valor |-> ExcepcionApi]
  ELSE [reintenta |-> FALSE, duerme |-> 0,
        valor |-> "ERROR_API_" \o ToString(r.status)]

\* Variant of the handler in which the RecursionError of the innermost
\* activation is not caught.
atender_sin_tope(prof, r) ==
  IF r.falla THEN [reintenta |-> FALSE, duerme |-> 0,
                   valor |-> ErrorConexion(MensajeDe(r))]
  ELSE IF r.status = 200
  THEN [reintenta |-> FALSE, duerme |-> 0,
        valor |-> IF r.cuerpo \in {"sin_choices", "no_json"}
                  THEN ErrorConexion(MensajeDe(r))
                  ELSE Contenido(r.cuerpo)]
  ELSE IF r.status = 429
  THEN IF prof < LimiteRecursion
       THEN [reintenta |-> TRUE, duerme |-> EsperaRateLimit,
             valor |-> SinRetorno]
       ELSE [reintenta |-> FALSE, duerme |-> EsperaRateLimit,
             valor |-> ExcepcionApi]
  ELSE [reintenta |-> FALSE, duerme |-> 0,
        valor |-> "ERROR_API_" \o ToString(r.status)]

\* The try block of one activation, at nesting depth prof, once requests.post
\* has ended in r.  A transport exception, or one raised while the reply is
\* taken out of the body, is caught and becomes an ERROR_CONEXION string.
\* 200: the content of the first choice.  429: sleep, then call
\* consultar_deepseek again with the same arguments and return what it
\* returns; when the interpreter has no room for another activation, the call
\* raises RecursionError inside this try, which is caught like any other
\* exception.  Any other status: ERROR_API_<status>.
atender(prof, r) ==
  IF r.falla THEN [reintenta |-> FALSE, duerme |-> 0,
                   valor |-> ErrorConexion(MensajeDe(r))]
  ELSE IF r.status = 200
  THEN [reintenta |-> FALSE, duerme |-> 0,
        valor |-> IF r.cuerpo \in {"sin_choices", "no_json"}
                  THEN ErrorConexion(MensajeDe(r))
                  ELSE Contenido(r.cuerpo)]
  ELSE IF r.status = 429
  THEN IF prof < LimiteRecursion
       THEN [reintenta |-> TRUE, duerme |-> EsperaRateLimit,
             valor |-> SinRetorno]
       ELSE [reintenta |-> FALSE, duerme |-> EsperaRateLimit,
             valor |-> ErrorConexion(MensajeRecursion)]
  ELSE [reintenta |-> FALSE, duerme |-> 0,
        valor |-> "ERROR_API_" \o ToString(r.status)]

\* ---- SpecGateway: a batch run makes one call per batch
InitGateway ==
  /\ lotes_pendientes \in 1..MaxLotesApi
  /\ prompt = "" /\ system_message = ""
  /\ profundidad = 0
  /\ solicitudes = <<>> /\ dormido = 0 /\ respuestas = <<>>
  /\ retorno = SinRetorno
  /\ pc_api = "inactivo"
  /\ respuesta_api = <<>>
  /\ parseado = Pendiente
  /\ consolidado = Pendiente
  /\ consulta_texto = <<>>
  /\ analisis = Pendiente
  /\ corpus = <<>> /\ comando = "" /\ max_docs = 0
  /\ corridas = 0 /\ limpiezas = 0
  /\ Reposo
  /\ ConsultaIdle
  /\ DosIdle

\* procesar_chunk calls consultar_deepseek(prompt, system_message)
Llamar ==
  /\ pc_api = "inactivo"
  /\ lotes_pendientes > 0
  /\ prompt' \in Prompts
  /\ system_message' \in Sistemas
  /\ profundidad' = 1
  /\ solicitudes' = <<>> /\ dormido' = 0 /\ respuestas' = <<>>
  /\ retorno' = SinRetorno
  /\ pc_api' = "enviar"
  /\ UNCHANGED lotes_pendientes
  /\ UNCHANGED <<varsChunks, varsRun, varsPuras, varsConsulta, varsDos>>

\* one activation: build the messages, post them, handle what comes back
Solicitar ==
  /\ pc_api = "enviar"
  /\ \E r \in Resultados :
       LET a == atender(profundidad, r)
       IN /\ solicitudes' = Append(solicitudes, Mensajes(prompt, system_message))
          /\ respuestas' = Append(respuestas, r)
          /\ dormido' = dormido + a.duerme
          /\ IF a.reintenta
             THEN /\ profundidad' = profundidad + 1
                  /\ UNCHANGED <<retorno, pc_api>>
             ELSE /\ retorno' = a.valor
                  /\ pc_api' = IF a.valor = ExcepcionApi THEN "excepcion"
                                ELSE "retornado"
                  /\ UNCHANGED profundidad
  /\ UNCHANGED <<prompt, system_message, lotes_pendientes>>
  /\ UNCHANGED <<varsChunks, varsRun, varsPuras, varsConsulta, varsDos>>

\* the caller has the reply of this batch and goes on to the next batch
Retornar_api ==
  /\ pc_api = "retornado"
  /\ pc_api' = "inactivo"
  /\ lotes_pendientes' = lotes_pendientes - 1
  /\ UNCHANGED <<prompt, system_message, profundidad, solicitudes, dormido,
                 respuestas, retorno>>
  /\ UNCHANGED <<varsChunks, varsRun, varsPuras, varsConsulta, varsDos>>

NextGateway == Llamar \/ Solicitar \/ Retornar_api

SpecGateway == InitGateway /\ [][NextGateway]_vars

\* The process is sequential and runs on: a call that can take its next
\* step takes it, and every request ends (a response, or an exception at
\* the latest when the timeout of 60 s expires).
SpecGatewayJusto == SpecGateway /\ WF_vars(NextGateway)

\* ======================================================================
\* Properties of consultar_deepseek (checked under SpecGateway)
\* ======================================================================
\* the rate-limit responses this call has received
N429 == Cardinality({k \in DOMAIN respuestas : respuestas[k].status = 429})

UltimaRespuesta == respuestas[Len(respuestas)]

\* every request of the call carried the messages built from its arguments
SolicitudesIdenticas ==
  \A k \in DOMAIN solicitudes : solicitudes[k] = Mensajes(prompt, system_message)

\* the outcome of a response that is not a rate-limit response
Desenlace(r) ==
  IF ~r.falla /\ r.status = 200 /\ r.cuerpo = "contenido"
    THEN "texto de la respuesta"
  ELSE IF ~r.falla /\ r.status = 200 /\ r.cuerpo = "contenido_nulo"
    THEN "None"
  ELSE IF ~r.falla /\ r.status = 500 THEN "ERROR_API_500"
  ELSE IF r.falla THEN "ERROR_CONEXION: Connection refused"
  ELSE IF r.cuerpo = "sin_choices" THEN "ERROR_CONEXION: 'choices'"
  ELSE "ERROR_CONEXION: Expecting value: line 1 column 1 (char 0)"

Solo429 == respuestas # <<>> /\ N429 = Len(respuestas)

RunCompleto == pc_api = "inactivo" /\ lotes_pendientes = 0

ErroresConexion ==
  {"ERROR_CONEXION: Connection refused", "ERROR_CONEXION: 'choices'",
   "ERROR_CONEXION: Expecting value: line 1 column 1 (char 0)",
   "ERROR_CONEXION: maximum recursion depth exceeded while calling a P"}

\* C24: no exception leaves consultar_deepseek.  When the call has returned:
\* after a 200 response with a completion in its body, the value is the
\* content of the completion; after another status that is not 429, it is
\* 'ERROR_API_<status>'; after a transport failure or a 200 response whose
\* body is not a completion, it is a string starting with 'ERROR_CONEXION'.
C24_NuncaLanza ==
  /\ pc_api # "excepcion"
  /\ pc_api = "retornado" =>
       LET r == UltimaRespuesta
       IN /\ retorno # SinRetorno /\ retorno # ExcepcionApi
          /\ (~r.falla /\ r.status = 200 /\ r.cuerpo = "contenido")
               => retorno = "texto de la respuesta"
          /\ (~r.falla /\ r.status = 200 /\ r.cuerpo = "contenido_nulo")
               => retorno = "None"
          /\ (~r.falla /\ r.status \notin {200, 429})
               => retorno = "ERROR_API_500" /\ r.status = 500
          /\ (r.falla \/ r.cuerpo \in {"sin_choices", "no_json"})
               => retorno \in ErroresConexion

\* C24 witness: a call has returned after a 200 response whose body has no
\* "choices".
C24_Witness ==
  /\ pc_api = "retornado"
  /\ UltimaRespuesta.status = 200
  /\ UltimaRespuesta.cuerpo = "sin_choices"
  /\ retorno = "ERROR_CONEXION: 'choices'"

\* ======================================================================
\* The query tool: GestorPrompts.obtener_prompt and
\* ConsultorSecihtiV32.procesar_consulta
\* ======================================================================
\* A prompt is a sequence of pieces: pieces of the template, placeholders
\* ("{proyecto}", "{documentos}") and the words put in their place.

\* PROMPTS[tipo]['user'], cut at its placeholders
PlantillaUsuario(tipo) ==
  CASE tipo = "info_proyecto" ->
         <<"Analiza los documentos e informa sobre este proyecto: PROYECTO:",
           "{proyecto}", "DOCUMENTOS:", "{documentos}",
           "INSTRUCCIONES: 1. Enfocate exclusivamente en el proyecto",
           "{proyecto}", "... RESPONDA en formato JSON: {{ proyecto:",
           "{proyecto}", "... }}">>
    [] tipo = "verificar" ->
         <<"Verifica esta afirmacion: AFIRMACION:", "{afirmacion}",
           "DOCUMENTOS:", "{documentos}",
           "INSTRUCCIONES: ... RESPONDA en formato JSON: {{ afirmacion:",
           "{afirmacion}", "... }}">>
    [] tipo = "buscar_documentos" ->
         <<"Encuentra esta informacion: BUSQUEDA:", "{busqueda}",
           "DOCUMENTOS:", "{documentos}",
           "INSTRUCCIONES: ... RESPONDA en formato JSON: {{ busqueda:",
           "{busqueda}", "... }}">>

PlantillaSistema(tipo) ==
  CASE tipo = "info_proyecto" ->
         "Eres un experto en proyectos de investigacion mexicano. ..."
    [] tipo = "verificar" ->
         "Eres un verificador de hechos basado en documentos. ..."
    [] tipo = "buscar_documentos" ->
         "Eres un buscador experto en documentos oficiales."

\* the keys of PROMPTS
ConPlantilla == {"info_proyecto", "verificar", "buscar_documentos"}

\* str.replace(marca, valor) on a prompt: every piece equal to the
\* placeholder gives way to the words of the value
RECURSIVE replace(_, _, _)
replace(piezas, marca, valor) ==
  IF piezas = <<>> THEN <<>>
  ELSE (IF Head(piezas) = marca THEN valor ELSE <<Head(piezas)>>)
       \o replace(Tail(piezas), marca, valor)

\* for key, value in parametros.items(): replace "{key}" by str(value)
RECURSIVE ReemplazarParametros(_, _, _)
ReemplazarParametros(piezas, parametros, claves) ==
  IF claves = {} THEN piezas
  ELSE LET key == CHOOSE c \in claves : TRUE
       IN ReemplazarParametros(
            replace(piezas, "{" \o key \o "}", parametros[key]),
            parametros, claves \ {key})

\* parametros.get(key, '')
get(parametros, key) ==
  IF key \in DOMAIN parametros THEN parametros[key] ELSE <<>>

\* Variant of the prompt builder whose generic prompt also takes the
\* parameter 'pregunta'.
obtener_prompt_con_pregunta(tipo_consulta, parametros) ==
  IF tipo_consulta \in ConPlantilla
  THEN [system |-> PlantillaSistema(tipo_consulta),
        user |-> ReemplazarParametros(PlantillaUsuario(tipo_consulta),
                                      parametros, DOMAIN parametros)]
  ELSE [system |-> "Analiza documentos y responde preguntas.",
        user |-> <<"Responde a:">> \o get(parametros, "texto")
                 \o get(parametros, "pregunta")
                 \o <<"Documentos:", "{documentos}">>]

\* GestorPrompts.obtener_prompt
obtener_prompt(tipo_consulta, parametros) ==
  IF tipo_consulta \in ConPlantilla
  THEN [system |-> PlantillaSistema(tipo_consulta),
        user |-> ReemplazarParametros(PlantillaUsuario(tipo_consulta),
                                      parametros, DOMAIN parametros)]
  ELSE [system |-> "Analiza documentos y responde preguntas.",
        user |-> <<"Responde a:">> \o get(parametros, "texto")
                 \o <<"Documentos:", "{documentos}">>]

\* sorted(pdf_paths, key=name, reverse=True): names are distinct
sorted_reverse(pdfs) ==
  [k \in 1..Len(pdfs) |->
     CHOOSE d \in Rango(pdfs) :
       Cardinality({e \in Rango(pdfs) : e.nombre > d.nombre}) = k - 1]

\* _cargar_documentos: with a limit below the number of PDFs, the max_docs
\* last names; otherwise the directory in glob order
cargar_documentos(pdfs, n) ==
  IF n # 0 /\ n < Len(pdfs) THEN SubSeq(sorted_reverse(pdfs), 1, n) ELSE pdfs

\* _formatear_textos_documentos: a header and the first 2000 characters of
\* each text
RECURSIVE formatear_textos_documentos(_)
formatear_textos_documentos(txts) ==
  IF txts = <<>> THEN <<>>
  ELSE <<"--- DOCUMENTO: " \o ToString(Head(txts).nombre) \o " ---",
         "texto[:2000] de " \o ToString(Head(txts).nombre)>>
       \o formatear_textos_documentos(Tail(txts))

\* what the LLM call of the query tool returns: a reply holding a JSON
\* object, a reply in plain text, or the error string of a failed call
RespuestasConsulta == {"json", "texto", "ERROR: Connection error."}

\* _procesar_respuesta (the timestamp is left out)
procesar_respuesta(respuesta, an) ==
  IF respuesta = "json"
  THEN [datos |-> "json", consulta |-> an.consulta_original,
        tipo_consulta |-> an.tipo]
  ELSE [consulta |-> an.consulta_original, tipo_consulta |-> an.tipo,
        respuesta_texto |-> respuesta,
        advertencia |-> "Respuesta no esta en formato JSON estructurado"]

\* Variant of procesar_consulta without the two tests for an empty corpus.
procesar_consulta_sin_guardas(ct, pdfs, max, respuesta, escritura) ==
  LET an == analizar(ct)
      pdf_paths == cargar_documentos(pdfs, max)
      textos_documentos == Utiles(pdf_paths)
      prompt_data == obtener_prompt(an.tipo, an.parametros)
      prompt_final ==
        replace(prompt_data.user, "{documentos}",
                formatear_textos_documentos(textos_documentos))
  IN [analisis |-> an,
      enviados |-> <<[system |-> prompt_data.system, user |-> prompt_final]>>,
      resultado |-> IF escritura = "ok"
                    THEN procesar_respuesta(respuesta, an)
                    ELSE [excepcion |-> "OSError"]]

\* procesar_consulta: Paso 1 to Paso 6.  _guardar_resultado opens a file in
\* the working directory; when that fails the exception leaves the call.
procesar_consulta(ct, pdfs, max, respuesta, escritura) ==
  LET an == analizar(ct)
      pdf_paths == cargar_documentos(pdfs, max)
      textos_documentos == Utiles(pdf_paths)
      prompt_data == obtener_prompt(an.tipo, an.parametros)
      prompt_final ==
        replace(prompt_data.user, "{documentos}",
                formatear_textos_documentos(textos_documentos))
  IN IF pdf_paths = <<>>
     THEN [analisis |-> an, enviados |-> <<>>,
           resultado |-> [error |-> "No se encontraron documentos"]]
     ELSE IF textos_documentos = <<>>
     THEN [analisis |-> an, enviados |-> <<>>,
           resultado |->
             [error |-> "No se pudo extraer texto de los documentos"]]
     ELSE [analisis |-> an,
           enviados |-> <<[system |-> prompt_data.system,
                           user |-> prompt_final]>>,
           resultado |-> IF escritura = "ok"
                         THEN procesar_respuesta(respuesta, an)
                         ELSE [excepcion |-> "OSError"]]

\* ---- SpecCorpus: over one directory of at most MaxPdfsCorpus PDFs, either
\* the query tool is called once or the extractor is run once
PalabrasPregunta == {"De que trata", "Olinia", "proyectos", "?"}

\* a PDF gives no text, or a short text of more than 200 characters
ExtraccionesCorpus ==
  {[util |-> FALSE, palabras |-> 0], [util |-> TRUE, palabras |-> 1]}

InitCorpus ==
  /\ corpus \in Corpora(ExtraccionesCorpus, MaxPdfsCorpus)
  /\ comando \in Tipos
  /\ max_docs \in 0..MaxPdfsCorpus
  /\ max_documentos = 0
  /\ consulta_texto = <<>>
  /\ analisis = Pendiente
  /\ enviados = <<>>
  /\ resultado_consulta = Pendiente
  /\ respuesta_api = <<>>
  /\ parseado = Pendiente
  /\ consolidado = Pendiente
  /\ corridas = MaxCorridas - 1
  /\ limpiezas = MaxLimpiezas
  /\ Reposo
  /\ ApiIdle
  /\ DosIdle

ProcesarConsulta ==
  /\ resultado_consulta = Pendiente
  /\ fase = "inactivo"
  /\ corridas = MaxCorridas - 1
  /\ \E ct \in SeqsHasta(PalabrasPregunta, MaxPregunta),
        max \in 0..MaxPdfsCorpus,
        respuesta \in RespuestasConsulta, escritura \in {"ok", "falla"} :
       LET r == procesar_consulta(ct, corpus, max, respuesta, escritura)
       IN /\ consulta_texto' = ct
          /\ max_documentos' = max
          /\ analisis' = r.analisis
          /\ enviados' = r.enviados
          /\ resultado_consulta' = r.resultado
  /\ UNCHANGED <<respuesta_api, parseado, consolidado>>
  /\ UNCHANGED <<varsChunks, varsRun, varsApi, varsDos>>

CorrerExtractor == resultado_consulta = Pendiente /\ NextLote

NextCorpus == ProcesarConsulta \/ CorrerExtractor

SpecCorpus == InitCorpus /\ [][NextCorpus]_vars

\* ======================================================================
\* Properties of the two tools on a directory (checked under SpecCorpus)
\* ======================================================================
\* the PDFs _cargar_documentos hands to the query tool: all of them, or with
\* a limit below their number the ones whose names come last
Cargados ==
  IF max_documentos = 0 \/ max_documentos >= Len(corpus) THEN Rango(corpus)
  ELSE {d \in Rango(corpus) :
          Cardinality({e \in Rango(corpus) : e.nombre > d.nombre})
            < max_documentos}

\* the PDFs procesar_documentos works on: all of them, or the first max_docs
Tomados ==
  {corpus[k] : k \in {j \in DOMAIN corpus : max_docs = 0 \/ j <= max_docs}}

\* C25: an empty corpus ends in an error result and no LLM request.
\* procesar_consulta returns {error: ...} when the directory holds no PDF and
\* when none of the PDFs it loads yields text; procesar_documentos, when none
\* of its PDFs yields text, makes no batch, calls the LLM for none and
\* returns {error: 'sin_resultados'}.
C25_CorpusVacioSinLlm ==
  /\ (resultado_consulta # Pendiente /\ corpus = <<>>)
       => /\ resultado_consulta = [error |-> "No se encontraron documentos"]
          /\ enviados = <<>>
  /\ (resultado_consulta # Pendiente /\ corpus # <<>>
        /\ \A d \in Cargados : ~d.util)
       => /\ resultado_consulta =
               [error |-> "No se pudo extraer texto de los documentos"]
          /\ enviados = <<>>
  /\ (fase = "procesando" /\ \A d \in Tomados : ~d.util)
       => /\ chunks_docs = <<>>
          /\ resultados_chunks = <<>>
          /\ llamadas = 0
          /\ ultima = NingunaLlamada
          /\ \A orden \in Ordenes :
               consolidar_resultados(resultados_chunks, consulta_tipo, orden)
                 = [error |-> "sin_resultados"]

\* C25 witness: the query tool was called on a directory that holds a PDF
\* with text, which the limit left out, and returned the error.
C25_Witness ==
  /\ resultado_consulta = [error |-> "No se pudo extraer texto de los documentos"]
  /\ \E d \in Rango(corpus) : d.util
  /\ enviados = <<>>

\* the words of the query, as written and lower-cased
PalabrasDeLaConsulta ==
  Rango(consulta_texto) \cup {lower_palabra(w) : w \in Rango(consulta_texto)}

\* C28: for an intent without an entry in PROMPTS the user prompt sent to
\* the LLM is the generic one, filled from the parameter 'texto' only: for
\* 'busqueda_general' it holds the query as written; for every other such
\* intent, 'pregunta_general' among them, it holds no word of the query.
C28_PromptGenericoSoloTexto ==
  (enviados # <<>> /\ analisis.tipo \notin ConPlantilla) =>
    LET user == enviados[1].user
        n == Len(consulta_texto)
    IN /\ Len(enviados) = 1
       /\ enviados[1].system = "Analiza documentos y responde preguntas."
       /\ user[1] = "Responde a:"
       /\ IF analisis.tipo = "busqueda_general"
          THEN /\ SubSeq(user, 2, n + 1) = consulta_texto
               /\ user[n + 2] = "Documentos:"
          ELSE /\ user[2] = "Documentos:"
               /\ Rango(user) \cap PalabrasDeLaConsulta = {}
       /\ "{documentos}" \notin Rango(user)

\* C28 witness: a question classified 'pregunta_general' was sent to the LLM.
C28_Witness ==
  /\ enviados # <<>>
  /\ analisis.tipo = "pregunta_general"
  /\ analisis.parametros.pregunta = <<"olinia", "?">>

\* ======================================================================
\* Rounding of the token estimate (checked under SpecChunks)
\* ======================================================================
\* round(palabras * 1.3): the nearest integer, the even one at a tie
round_13(palabras) ==
  LET q == (palabras * 13) \div 10
      r == (palabras * 13) % 10
  IN IF r > 5 \/ (r = 5 /\ q % 2 = 1) THEN q + 1 ELSE q

\* C26: the estimate of a text is round(word_count * 1.3).  When the first
\* text of the input has opened the running batch, the running total of the
\* batch is the estimate of that text.
C26_EstimacionRedondeada ==
  (pos = 1 /\ chunk_actual = <<textos[1]>>)
    => tokens_actual = round_13(textos[1])

PrimerAvistamiento(chs, i, j) ==
  /\ chs[i].proyectos[j].nombre # ""
  /\ \A a \in 1..i :
       "proyectos" \in DOMAIN chs[a] =>
         \A b \in DOMAIN chs[a].proyectos :
           (a < i \/ b < j) =>
             chs[a].proyectos[b].nombre # chs[i].proyectos[j].nombre

\* self.resultados_chunks after the call.  The loops write to the values of
\* todos_proyectos only: the key "documentos" is set to a new set, then to
\* its list, and the key "menciones" is added.  When alias holds, the value
\* made at the first sighting of a name is the entity dictionary itself and
\* the writes land in the batch results; otherwise it is a copy.
EfectoEnEntradas(chs, tipo, orden, alias) ==
  IF chs = <<>> \/ tipo # "proyectos" \/ ~alias THEN chs
  ELSE LET todos == Acumular(<<>>, Visitados(chs)) IN
    [i \in DOMAIN chs |->
       IF "proyectos" \notin DOMAIN chs[i] THEN chs[i]
       ELSE [chs[i] EXCEPT !.proyectos =
               [j \in DOMAIN chs[i].proyectos |->
                  IF PrimerAvistamiento(chs, i, j)
                  THEN LET t == todos[Posicion(todos, chs[i].proyectos[j].nombre)]
                       IN [nombre |-> t.nombre, descripcion |-> t.descripcion,
                           documentos |-> Lista(list(t.documentos, orden)),
                           menciones |-> Cardinality(t.documentos)]
                  ELSE chs[i].proyectos[j]]]]

\* Variant without the copy: todos_proyectos[nombre] = proyecto
resultados_tras_consolidar_sin_copia(chs, tipo, orden) ==
  EfectoEnEntradas(chs, tipo, orden, TRUE)

\* todos_proyectos[nombre] = proyecto.copy()
resultados_tras_consolidar(chs, tipo, orden) ==
  EfectoEnEntradas(chs, tipo, orden, FALSE)

\* ---- SpecConsolidarDos: two calls in a row in one process
FormasDos ==
  {f \in SeqsHasta((-1)..MaxEntradasDos, MaxLotesCons) :
     SumaForma(f) <= MaxEntradasDos}

InitConsolidarDos ==
  /\ \E f \in FormasDos : \E plano \in [1..SumaForma(f) -> EntradasProyecto] :
       resultados_chunks = Construir(f, plano)
  /\ consulta_tipo \in Tipos
  /\ orden_set \in Ordenes
  /\ consolidado = Pendiente
  /\ consolidado_2 = Pendiente
  /\ respuesta_api = <<>>
  /\ parseado = Pendiente
  /\ consulta_texto = <<>>
  /\ analisis = Pendiente
  /\ corpus = <<>> /\ comando = consulta_tipo /\ max_docs = 0
  /\ corridas = 0 /\ limpiezas = 0
  /\ cache = <<>> /\ fase = "procesando" /\ semilla = 0
  /\ documentos_nombres = <<>> /\ chunks_docs = <<>> /\ i_chunk = 0
  /\ llamadas = 0 /\ ultima = NingunaLlamada /\ historia = <<>>
  /\ textos = <<>> /\ max_tokens = TOKENS_POR_CHUNK /\ pos = 0
  /\ chunks = <<>> /\ chunk_actual = <<>> /\ tokens_actual = 0 /\ pc = "fin"
  /\ ApiIdle
  /\ max_documentos = 0 /\ enviados = <<>> /\ resultado_consulta = Pendiente

ConsolidarPrimera ==
  /\ consolidado = Pendiente
  /\ consolidado' =
       consolidar_resultados(resultados_chunks, consulta_tipo, orden_set)
  /\ resultados_chunks' =
       resultados_tras_consolidar(resultados_chunks, consulta_tipo, orden_set)
  /\ UNCHANGED <<respuesta_api, parseado, consulta_texto, analisis,
                 orden_set, consolidado_2>>
  /\ UNCHANGED <<corpus, comando, max_docs, cache, fase, semilla,
                 consulta_tipo, documentos_nombres, chunks_docs, i_chunk,
                 llamadas, corridas, limpiezas, ultima, historia>>
  /\ UNCHANGED <<varsChunks, varsApi, varsConsulta>>

ConsolidarSegunda ==
  /\ consolidado # Pendiente
  /\ consolidado_2 = Pendiente
  /\ consolidado_2' =
       consolidar_resultados(resultados_chunks, consulta_tipo, orden_set)
  /\ resultados_chunks' =
       resultados_tras_consolidar(resultados_chunks, consulta_tipo, orden_set)
  /\ UNCHANGED <<respuesta_api, parseado, consolidado, consulta_texto,
                 analisis, orden_set>>
  /\ UNCHANGED <<corpus, comando, max_docs, cache, fase, semilla,
                 consulta_tipo, documentos_nombres, chunks_docs, i_chunk,
                 llamadas, corridas, limpiezas, ultima, historia>>
  /\ UNCHANGED <<varsChunks, varsApi, varsConsulta>>

NextConsolidarDos == ConsolidarPrimera \/ ConsolidarSegunda

SpecConsolidarDos == InitConsolidarDos /\ [][NextConsolidarDos]_vars

====
